---------------------------- MODULE Spec2Model ----------------------------
(* A model of streamlit_app.py (LastWarHeros): the owner-scoped access    *)
(* helpers, the key-value adapter, the series resolver and the pages that *)
(* write through them.  A Python str is a sequence of one-character       *)
(* strings, so that parsing and formatting are computed, not assumed.     *)
EXTENDS Integers, Sequences, FiniteSets, TLC

VARIABLES
    names,      \* expand_ranges_in_order: the argument `names`
    out,        \* expand_ranges_in_order: the returned list `out`
    xpc,        \* "in" before the call, "done" after it
    kv_map_full,  \* Dashboard: the dict load_kv_map returned for this run
    dres,       \* Dashboard: the helper last called, its arguments and result
    legacy,     \* store: TRUE when buildings_kv has no user_id column
    kvT,        \* store: table buildings_kv, a bag of rows
    trackT,     \* store: table buildings_tracking, a bag of rows
    resT,       \* store: table research_data, a bag of rows
    heroT,      \* store: table heroes, a bag of rows
    nextId,     \* store: the id the next inserted heroes row gets
    reqs,       \* the requests the last operation sent to the store, in order
    last,       \* the last operation: its name, caller, arguments and outcome
    profT,      \* store: table profiles, a bag of rows
    catT,       \* store: table research_catalog, a bag of rows
    urT,        \* store: table user_research, a bag of rows
    sess        \* the page runs under way: each session's position and locals

xvars == <<names, out, xpc>>
dvars == <<kv_map_full, dres>>
svars == <<legacy, kvT, trackT, resT, reqs, last>>
hvars == <<heroT, nextId>>
pvars == <<profT, catT, urT, sess>>
vars == <<names, out, xpc, kv_map_full, dres, legacy, kvT, trackT, resT,
          heroT, nextId, reqs, last, profT, catT, urT, sess>>

(* ------------------------------ bounds -------------------------------- *)
MaxNameLen == 5
MaxValLen == 2
MaxHeroId == 2
MaxLevel == 40
MaxResearchLevel == 3

(* ------------------------- Python str and int ------------------------- *)
Digits == <<"0", "1", "2", "3", "4", "5", "6", "7", "8", "9">>

IsDigit(c) == \E d \in 1..10 : Digits[d] = c

DigitVal(c) == (CHOOSE d \in 1..10 : Digits[d] = c) - 1

Range(s) == {s[i] : i \in 1..Len(s)}

Strings(chars, n) == UNION {[1..k -> chars] : k \in 0..n}

\* int(x) for x a str without sign, blank or underscore: int_ok(x) tells
\* whether int(x) returns (x is a non-empty run of decimal digits) or
\* raises ValueError, and py_int(x) is the value it returns.
RECURSIVE py_int(_)
py_int(x) ==
    IF x = <<>> THEN 0
    ELSE 10 * py_int(SubSeq(x, 1, Len(x) - 1)) + DigitVal(x[Len(x)])

int_ok(x) == x # <<>> /\ \A i \in 1..Len(x) : IsDigit(x[i])

\* str(i) / f"{i}" for an int i >= 0.
RECURSIVE py_str(_)
py_str(i) ==
    IF i < 10 THEN <<Digits[i + 1]>>
    ELSE py_str(i \div 10) \o <<Digits[(i % 10) + 1]>>

\* n.rsplit(" ", 1): cut at the last space, if there is one.
rsplit1(n) ==
    IF \E i \in 1..Len(n) : n[i] = " "
    THEN LET i == CHOOSE j \in 1..Len(n) :
                     n[j] = " " /\ \A k \in (j + 1)..Len(n) : n[k] # " "
         IN  <<SubSeq(n, 1, i - 1), SubSeq(n, i + 1, Len(n))>>
    ELSE <<n>>

\* rng.split("-"): every piece between dashes, empty pieces included.
RECURSIVE split_dash(_)
split_dash(s) ==
    IF \E i \in 1..Len(s) : s[i] = "-"
    THEN LET i == CHOOSE j \in 1..Len(s) :
                     s[j] = "-" /\ \A k \in 1..(j - 1) : s[k] # "-"
         IN  <<SubSeq(s, 1, i - 1)>> \o split_dash(SubSeq(s, i + 1, Len(s)))
    ELSE <<s>>

\* None, as dict.get returns it for a missing key and as a null column reads.
None == <<"None">>

\* float(v) for v a str of digits, ".", "-" and letters: it returns for an
\* optional "-", then digits with at most one "." among them and at least
\* one digit, and raises ValueError otherwise.
float_ok(v) ==
    LET u == IF v # <<>> /\ v[1] = "-" THEN Tail(v) ELSE v IN
    /\ \A i \in 1..Len(u) : IsDigit(u[i]) \/ u[i] = "."
    /\ Cardinality({i \in 1..Len(u) : u[i] = "."}) <= 1
    /\ \E i \in 1..Len(u) : IsDigit(u[i])

\* int(float(v)) where float(v) returns: the digits before the ".", signed;
\* int() drops the fraction (it truncates toward zero).
int_float(v) ==
    LET neg == v[1] = "-"
        u == IF neg THEN Tail(v) ELSE v
        dot == IF "." \in Range(u) THEN CHOOSE i \in 1..Len(u) : u[i] = "."
               ELSE Len(u) + 1
        whole == py_int(SubSeq(u, 1, dot - 1))
    IN  IF neg THEN 0 - whole ELSE whole

(* ------------------------------ the store ----------------------------- *)
\* The store applies exactly the filters and conflict targets it is sent;
\* row-level policies of the hosted database are not part of the model.
\* A table is a bag of rows: a function from the rows it holds to how many
\* copies it holds.
ID_COL == "user_id"

\* The owner of a row of a table without the owner column, and the owner
\* filter of an unscoped request.
NoOwner == "-"

EmptyTable == [r \in {} |-> 0]

RECURSIVE Copies(_, _)
Copies(T, S) ==
    IF S = {} THEN 0
    ELSE LET r == CHOOSE x \in S : TRUE IN T[r] + Copies(T, S \ {r})

\* INSERT ... ON CONFLICT (cols) DO UPDATE for one row r: the rows that agree
\* with r on cols take r's columns; without such a row, or without a
\* conflict target, r is inserted.
UpsertRow(T, r, cols) ==
    LET hit == {s \in DOMAIN T : cols # {} /\ \A c \in cols : s[c] = r[c]}
        keep == DOMAIN T \ hit
        n == IF hit = {} THEN 1 ELSE Copies(T, hit)
    IN  [x \in keep \cup {r} |->
            (IF x \in keep THEN T[x] ELSE 0) + (IF x = r THEN n ELSE 0)]

RECURSIVE StoreUpsert(_, _, _)
StoreUpsert(T, rows, cols) ==
    IF rows = <<>> THEN T
    ELSE UpsertRow(StoreUpsert(T, SubSeq(rows, 1, Len(rows) - 1), cols),
                   rows[Len(rows)], cols)

\* Two rows of one statement that hit the same conflict key: the store
\* rejects the statement.
HitsTwice(rows, cols) ==
    /\ cols # {}
    /\ \E i, j \in 1..Len(rows) : i < j /\ \A c \in cols : rows[i][c] = rows[j][c]

\* sb.table(t).select(...)[.eq(ID_COL, owner)][.in_("key", keys)]
SelectReq(t, owner, keys) ==
    [op |-> "select", table |-> t, owner |-> owner, keys |-> keys,
     rows |-> <<>>, conflict |-> {}]

\* sb.table(t).upsert(rows, on_conflict=conflict)
UpsertReq(t, rows, conflict) ==
    [op |-> "upsert", table |-> t, owner |-> NoOwner, keys |-> <<>>,
     rows |-> rows, conflict |-> conflict]

\* A request names the owner column when it filters on it, targets it or
\* sends it in a row.
NamesOwnerColumn(req) ==
    \/ req.owner # NoOwner
    \/ ID_COL \in req.conflict
    \/ \E i \in 1..Len(req.rows) : req.rows[i][ID_COL] # NoOwner

\* How .execute() ends for req: t is what the transport does ("ok" or
\* "timeout"); a request that names the owner column of a table without
\* one fails with the store's missing-column error.
Outcome(req, t, leg) ==
    IF t # "ok" THEN t
    ELSE IF leg /\ req.table = "buildings_kv" /\ NamesOwnerColumn(req) THEN "schema"
    ELSE IF req.op = "upsert" /\ HitsTwice(req.rows, req.conflict) THEN "twice"
    ELSE "ok"

Sent(req, e) ==
    [op |-> req.op, table |-> req.table, owner |-> req.owner, keys |-> req.keys,
     rows |-> req.rows, conflict |-> req.conflict, err |-> e]

Transport == {"ok", "timeout"}

\* The rows of T a select with this owner filter and key filter returns.
Selected(T, owner, keys) ==
    {r \in DOMAIN T : /\ owner = NoOwner \/ r[ID_COL] = owner
                      /\ keys = <<>> \/ r.key \in Range(keys)}

\* The orders in which the store may return a set of rows.
Orders(S) ==
    {f \in [1..Cardinality(S) -> S] : \A i, j \in 1..Cardinality(S) : f[i] = f[j] => i = j}

(* ----------------------------- KV helpers ----------------------------- *)
\* kv_select: the requests it sends and how it ends, for the transport
\* outcomes t1 and t2 of its first and second request.
\* raised = "none" when it returns; then `from` is the owner filter of the
\* request whose rows it returns.
kv_select(uid, keys, t1, t2, leg) ==
    LET q1 == SelectReq("buildings_kv", uid, keys)
        e1 == Outcome(q1, t1, leg)
        q2 == SelectReq("buildings_kv", NoOwner, keys)
        e2 == Outcome(q2, t2, leg)
    IN  IF e1 = "ok"
        THEN [reqs |-> <<Sent(q1, e1)>>, raised |-> "none", from |-> uid]
        ELSE \* except Exception: legacy no user_id
             [reqs |-> <<Sent(q1, e1), Sent(q2, e2)>>,
              raised |-> IF e2 = "ok" THEN "none" ELSE e2, from |-> NoOwner]

\* for r in rows: r[ID_COL] = uid
Stamp(rows, uid) == [i \in 1..Len(rows) |-> [user_id |-> uid] @@ rows[i]]

\* on_conflict=f"{ID_COL},key"
KvConflictNone == {}

KvConflict == {ID_COL, "key"}

\* kv_upsert: the one request it sends; its error, if any, is raised.
kv_upsert(uid, payload, t, leg) ==
    LET q == UpsertReq("buildings_kv", Stamp(payload, uid), KvConflict)
        e == Outcome(q, t, leg)
    IN  [reqs |-> <<Sent(q, e)>>, raised |-> IF e = "ok" THEN "none" ELSE e]

\* The table after the requests rs, which are sent to it in order.
RECURSIVE Applied(_, _, _)
Applied(T, rs, t) ==
    IF rs = <<>> THEN T
    ELSE LET q == Head(rs)
             T1 == IF q.op = "upsert" /\ q.table = t /\ q.err = "ok"
                   THEN StoreUpsert(T, q.rows, q.conflict) ELSE T
         IN  Applied(T1, Tail(rs), t)

(* ---------------------------- Owner helpers --------------------------- *)
owner_conflict_by_name(table) ==
    IF table = "research_data" THEN {"category", "name"}
    ELSE {"name"}

\* conflict = f"{ID_COL},category,name" for research_data, f"{ID_COL},name"
\* for every other table.
owner_conflict(table) ==
    IF table = "research_data" THEN {ID_COL, "category", "name"}
    ELSE {ID_COL, "name"}

\* owner_upsert: the one request it sends; its error, if any, is raised.
owner_upsert(table, payload, uid, t, leg) ==
    LET q == UpsertReq(table, Stamp(payload, uid), owner_conflict(table))
        e == Outcome(q, t, leg)
    IN  [reqs |-> <<Sent(q, e)>>, raised |-> IF e = "ok" THEN "none" ELSE e]

(* ------------------------ Bootstrap for new users --------------------- *)
HQ == <<"H", "Q">>
Wall == <<"W", "a", "l", "l">>

\* DEFAULT_BUILDINGS, cut to its first two names.
DEFAULT_BUILDINGS == <<HQ, Wall>>

\* RESEARCH_CATEGORIES, cut to its first two names.
RESEARCH_CATEGORIES == <<"Development", "Economy">>

RESEARCH_CATEGORIES_SET == {RESEARCH_CATEGORIES[i] : i \in 1..Len(RESEARCH_CATEGORIES)}

KvSeed == [i \in 1..Len(DEFAULT_BUILDINGS) |->
              [key |-> DEFAULT_BUILDINGS[i], value |-> <<"0">>]]

ResearchSeed(uid) ==
    [i \in 1..Len(RESEARCH_CATEGORIES) |->
        [user_id |-> uid, category |-> RESEARCH_CATEGORIES[i], name |-> "_seed_",
         level |-> 0, max_level |-> 0, order_index |-> 0]]

\* Part 1 of bootstrap_user_if_needed: buildings_kv zeros.  Its requests;
\* an error of either ends the part and is dropped (except Exception: pass).
BootstrapKv(uid, t1, t2, leg, kv) ==
    LET q1 == SelectReq("buildings_kv", uid, <<>>)
        e1 == Outcome(q1, t1, leg)
        has_any == Selected(kv, uid, <<>>) # {}
    IN  IF e1 # "ok" \/ has_any THEN <<Sent(q1, e1)>>
        ELSE <<Sent(q1, e1)>> \o kv_upsert(uid, KvSeed, t2, leg).reqs

\* Part 2: research_data seed rows, sent by upsert(seed) with no on_conflict.
BootstrapResearch(uid, t3, t4, leg, res) ==
    LET q3 == SelectReq("research_data", uid, <<>>)
        e3 == Outcome(q3, t3, leg)
        has_any == Selected(res, uid, <<>>) # {}
        q4 == UpsertReq("research_data", ResearchSeed(uid), {})
    IN  IF e3 # "ok" \/ has_any THEN <<Sent(q3, e3)>>
        ELSE <<Sent(q3, e3), Sent(q4, Outcome(q4, t4, leg))>>

(* ----------------------- expand_ranges_in_order ----------------------- *)
\* range(lo, hi + 1) formatted as f"{head} {i}".
RECURSIVE RangeNames(_, _, _)
RangeNames(head, lo, hi) ==
    IF lo > hi THEN <<>>
    ELSE <<head \o <<" ">> \o py_str(lo)>> \o RangeNames(head, lo + 1, hi)

RangeNamesShort(head, lo, hi) == RangeNames(head, lo, hi - 1)

ExpandRange(head, lo, hi) == RangeNames(head, lo, hi)

\* The body of the for loop: what one name n adds to out.
expand_one(n) ==
    LET parts == rsplit1(n) IN
    IF Len(parts) = 2 /\ "-" \in Range(parts[2])
    THEN LET head == parts[1]
             bits == split_dash(parts[2])
         IN  IF Len(bits) = 2 /\ int_ok(bits[1]) /\ int_ok(bits[2])
             THEN ExpandRange(head, py_int(bits[1]), py_int(bits[2]))
             ELSE <<n>>          \* except Exception: out.append(n)
    ELSE <<n>>

RECURSIVE expand_ranges_in_order(_)
expand_ranges_in_order(ns) ==
    IF ns = <<>> THEN <<>>
    ELSE expand_one(Head(ns)) \o expand_ranges_in_order(Tail(ns))


(* --------------------- Dashboard: series helpers ---------------------- *)
DictGet(m, k) == IF k \in DOMAIN m THEN m[k] ELSE None

\* f"{base} {i}"
SeriesKey(base, i) == base \o <<" ">> \o py_str(i)

SeqMax(s) == CHOOSE x \in Range(s) : \A y \in Range(s) : y <= x

\* except Exception: vals.append(0)
OnBadValueSkip(vals) == vals

OnBadValue(vals) == Append(vals, 0)

\* One turn of the loop of max_series_local: vals after suffix i.
MaxSeriesStep(m, base, i, vals) ==
    LET v == DictGet(m, SeriesKey(base, i)) IN
    IF v = None \/ v = <<>> THEN Append(vals, 0)
    ELSE IF float_ok(v) THEN Append(vals, int_float(v))
    ELSE OnBadValue(vals)

RECURSIVE MaxSeriesVals(_, _, _)
MaxSeriesVals(m, base, rng) ==
    IF rng = <<>> THEN <<>>
    ELSE MaxSeriesStep(m, base, rng[Len(rng)],
                       MaxSeriesVals(m, base, SubSeq(rng, 1, Len(rng) - 1)))

max_series_local(m, base, rng) ==
    LET vals == MaxSeriesVals(m, base, rng) IN
    IF vals # <<>> THEN SeqMax(vals) ELSE 0

\* One turn of the loop of sum_series_local: s after suffix i.  A value
\* float() rejects leaves s as it is (except Exception: pass).
SumSeriesStepInt(m, base, i, s) ==
    LET v == DictGet(m, SeriesKey(base, i)) IN
    IF v = None \/ v = <<>> THEN s + 0
    ELSE IF int_ok(v) THEN s + py_int(v)
    ELSE s

SumSeriesStep(m, base, i, s) ==
    LET v == DictGet(m, SeriesKey(base, i)) IN
    IF v = None \/ v = <<>> THEN s + 0
    ELSE IF float_ok(v) THEN s + int_float(v)
    ELSE s

RECURSIVE sum_series_local(_, _, _)
sum_series_local(m, base, rng) ==
    IF rng = <<>> THEN 0
    ELSE SumSeriesStep(m, base, rng[Len(rng)],
                       sum_series_local(m, base, SubSeq(rng, 1, Len(rng) - 1)))

(* --------------- specification: expand_ranges_in_order ---------------- *)
NameChars == {"F", " ", "-", "1", "2"}

TechCenter13 == <<"T", "e", "c", "h", " ", "C", "e", "n", "t", "e", "r", " ", "1", "-", "3">>
Foo1x == <<"F", "o", "o", " ", "1", "-", "x">>

\* The argument lists: one arbitrary name alone, after "Wall" and before
\* "Tech Center 1-3" (two entries of base_buildings), and the three names
\* of the documented examples.
ExpandInputs ==
    LET N == Strings(NameChars, MaxNameLen) IN
    {<<n>> : n \in N} \cup {<<Wall, n>> : n \in N}
        \cup {<<n, TechCenter13>> : n \in N}
        \cup {<<TechCenter13, Wall, Foo1x>>}

ExpandStart == names \in ExpandInputs /\ out = <<>> /\ xpc = "in"

ExpandIdle == names = <<>> /\ out = <<>> /\ xpc = "idle"

DashIdle == kv_map_full = <<>> /\ dres = [fn |-> "none"]

StoreIdle ==
    /\ legacy = FALSE
    /\ kvT = EmptyTable
    /\ trackT = EmptyTable
    /\ resT = EmptyTable
    /\ reqs = <<>>
    /\ last = [op |-> "none"]

HeroIdle == heroT = EmptyTable /\ nextId = 1

PagesIdle ==
    /\ profT = EmptyTable
    /\ catT = EmptyTable
    /\ urT = EmptyTable
    /\ sess = <<>>

ExpandInit == ExpandStart /\ DashIdle /\ StoreIdle /\ HeroIdle /\ PagesIdle

Expand ==
    /\ xpc = "in"
    /\ out' = expand_ranges_in_order(names)
    /\ xpc' = "done"
    /\ UNCHANGED names
    /\ UNCHANGED <<dvars, svars, hvars, pvars>>

SpecExpand == ExpandInit /\ [][Expand]_vars

(* ------------------------------ claim C9 ------------------------------ *)
HasSpace(n) == " " \in Range(n)

\* The last space-separated token of n and what precedes its space.
LastToken(n) ==
    LET k == CHOOSE j \in 0..Len(n) :
                 /\ \A i \in (j + 1)..Len(n) : n[i] # " "
                 /\ (j > 0 => n[j] = " ")
    IN  SubSeq(n, k + 1, Len(n))

HeadOf(n) == SubSeq(n, 1, Len(n) - Len(LastToken(n)) - 1)

IsNumeral(t) == Len(t) > 0 /\ \A i \in 1..Len(t) : IsDigit(t[i])

DashAt(t) == {k \in 1..Len(t) : /\ t[k] = "-"
                                /\ IsNumeral(SubSeq(t, 1, k - 1))
                                /\ IsNumeral(SubSeq(t, k + 1, Len(t)))}

IsRangeToken(t) == DashAt(t) # {}

LowOf(t) == py_int(SubSeq(t, 1, (CHOOSE k \in DashAt(t) : TRUE) - 1))

HighOf(t) == py_int(SubSeq(t, (CHOOSE k \in DashAt(t) : TRUE) + 1, Len(t)))

\* What the claim asks of one name; with needHead the name must contain a
\* space for its last token to count as a range.
ClaimedNames(n, needHead) ==
    LET t == LastToken(n) IN
    IF IsRangeToken(t) /\ (needHead => HasSpace(n))
    THEN [i \in 1..(IF HighOf(t) >= LowOf(t) THEN HighOf(t) - LowOf(t) + 1 ELSE 0)
             |-> HeadOf(n) \o <<" ">> \o py_str(LowOf(t) + i - 1)]
    ELSE <<n>>

RECURSIVE ClaimedList(_, _)
ClaimedList(ns, needHead) ==
    IF ns = <<>> THEN <<>>
    ELSE ClaimedList(SubSeq(ns, 1, Len(ns) - 1), needHead)
             \o ClaimedNames(ns[Len(ns)], needHead)

ValChars == {"1", ".", "-", "x"}

StoredValues == Strings(ValChars, MaxValLen) \cup {None}

Hospital == <<"H">>
Barracks == <<"B">>

\* The stored keys the Dashboard may find: the first suffixes of one series.
DashKeys == {SeriesKey(Hospital, 1), SeriesKey(Hospital, 2)}

\* Suffix lists as SERIES holds them (range(1, n)), and out of order.
SeriesRanges == {<<>>, <<1>>, <<1, 2>>, <<2, 1>>, <<1, 2, 3>>}

DashInit ==
    /\ kv_map_full \in UNION {[D -> StoredValues] : D \in SUBSET DashKeys}
    /\ dres = [fn |-> "none"]
    /\ ExpandIdle
    /\ StoreIdle
    /\ HeroIdle
    /\ PagesIdle

MaxSeries ==
    \E base \in {Hospital, Barracks}, rng \in SeriesRanges :
        /\ dres' = [fn |-> "max_series_local", base |-> base, rng |-> rng,
                    val |-> max_series_local(kv_map_full, base, rng)]
        /\ UNCHANGED kv_map_full
        /\ UNCHANGED <<xvars, svars, hvars, pvars>>

SumSeries ==
    \E base \in {Hospital, Barracks}, rng \in SeriesRanges :
        /\ dres' = [fn |-> "sum_series_local", base |-> base, rng |-> rng,
                    val |-> sum_series_local(kv_map_full, base, rng)]
        /\ UNCHANGED kv_map_full
        /\ UNCHANGED <<xvars, svars, hvars, pvars>>

DashNext ==
    \/ MaxSeries
    \/ SumSeries

SpecDash == DashInit /\ [][DashNext]_vars

(* ----------------------------- claim C10 ------------------------------ *)
\* The ways to read v as [-]whole[.fraction] with at least one digit.
NumberReadings(v) ==
    {p \in [neg : BOOLEAN, w : 0..Len(v), f : 0..Len(v), dot : BOOLEAN] :
        LET s == IF p.neg THEN 1 ELSE 0
            d == IF p.dot THEN 1 ELSE 0
        IN  /\ s + p.w + d + p.f = Len(v)
            /\ p.w + p.f > 0
            /\ (~p.dot => p.f = 0)
            /\ (p.neg => v[1] = "-")
            /\ IsNumeral(SubSeq(v, s + 1, s + p.w)) \/ p.w = 0
            /\ (p.dot => v[s + p.w + 1] = ".")
            /\ IsNumeral(SubSeq(v, s + p.w + d + 1, Len(v))) \/ p.f = 0}

\* The integer level stored under key k: 0 for an absent, null, empty or
\* non-numeric value, otherwise the whole part of the number, signed.
StoredLevel(m, k) ==
    IF k \notin DOMAIN m THEN 0
    ELSE IF m[k] = None \/ m[k] = <<>> \/ NumberReadings(m[k]) = {} THEN 0
    ELSE LET p == CHOOSE q \in NumberReadings(m[k]) : TRUE
             s == IF p.neg THEN 1 ELSE 0
             w == py_int(SubSeq(m[k], s + 1, s + p.w))
         IN  IF p.neg THEN 0 - w ELSE w

SeriesLevels(m, base, rng) ==
    {StoredLevel(m, SeriesKey(base, rng[i])) : i \in 1..Len(rng)}

\* C10: the series maximum is the greatest integer level stored under
\* "<base> <suffix>" over the suffix list, an absent, empty or non-numeric
\* value counting as 0, and it is 0 for an empty suffix list.
C10_MaxOfSeries ==
    dres.fn = "max_series_local" =>
        LET L == SeriesLevels(kv_map_full, dres.base, dres.rng) IN
        IF dres.rng = <<>> THEN dres.val = 0
        ELSE dres.val \in L /\ \A x \in L : x <= dres.val

C10_Witness ==
    /\ dres.fn = "max_series_local"
    /\ dres.base = Hospital
    /\ dres.rng = <<1, 2, 3>>
    /\ DOMAIN kv_map_full = DashKeys
    /\ kv_map_full[SeriesKey(Hospital, 1)] = <<"x">>
    /\ kv_map_full[SeriesKey(Hospital, 2)] = <<"1", "1">>
    /\ dres.val = 11

(* ----------------------------- claim C11 ------------------------------ *)
RECURSIVE LevelsSum(_, _, _)
LevelsSum(m, base, rng) ==
    IF rng = <<>> THEN 0
    ELSE StoredLevel(m, SeriesKey(base, Head(rng))) + LevelsSum(m, base, Tail(rng))

\* C11: the series sum is the sum, over the suffix list, of the integer
\* levels stored under "<base> <suffix>", an absent, empty or non-numeric
\* value adding 0.
C11_SumOfSeries ==
    dres.fn = "sum_series_local" =>
        dres.val = LevelsSum(kv_map_full, dres.base, dres.rng)

\* "Hospital 1" holds a number with a fraction, "Hospital 2" no number,
\* "Hospital 3" is absent.
C11_Witness ==
    /\ dres.fn = "sum_series_local"
    /\ dres.base = Hospital
    /\ dres.rng = <<1, 2, 3>>
    /\ DOMAIN kv_map_full = DashKeys
    /\ kv_map_full[SeriesKey(Hospital, 1)] = <<"1", ".">>
    /\ kv_map_full[SeriesKey(Hospital, 2)] = <<"x">>
    /\ dres.val = 1

(* ---------------- specification: the key-value adapter ---------------- *)
Users == {"U1", "U2"}

One == <<"1">>
Zero == <<"0">>

\* A table without the owner column, as it was filled before user_id.
LegacyKv == [r \in {[user_id |-> NoOwner, key |-> HQ, value |-> One]} |-> 1]

KvRows(values) == [key : Range(DEFAULT_BUILDINGS), value : values]

\* Payloads: none, one row, two rows of different keys, one key twice.
KvPayloads(values) ==
    {<<>>} \cup {<<r>> : r \in KvRows(values)}
           \cup {<<r, q>> \in KvRows(values) \X KvRows(values) :
                     r.key = HQ /\ (q.key = Wall \/ q = r)}

KeyLists == {<<>>, <<HQ>>, <<Wall, HQ>>}

TrackPayloads ==
    {<<[name |-> HQ, upgrading |-> u, next |-> FALSE]>> : u \in BOOLEAN}

KVInit ==
    /\ legacy \in BOOLEAN
    /\ kvT = IF legacy THEN LegacyKv ELSE EmptyTable
    /\ trackT = EmptyTable
    /\ resT = EmptyTable
    /\ reqs = <<>>
    /\ last = [op |-> "none"]
    /\ ExpandIdle
    /\ DashIdle
    /\ HeroIdle
    /\ PagesIdle

KvSelect ==
    \E uid \in Users, keys \in KeyLists, t1 \in Transport, t2 \in Transport :
        LET r == kv_select(uid, keys, t1, t2, legacy) IN
        \E o \in (IF r.raised = "none" THEN Orders(Selected(kvT, r.from, keys))
                  ELSE {<<>>}) :
            /\ reqs' = r.reqs
            /\ last' = [op |-> "kv_select", uid |-> uid, keys |-> keys,
                        raised |-> r.raised, out |-> o]
            /\ UNCHANGED <<legacy, kvT, trackT, resT>>
            /\ UNCHANGED <<xvars, dvars, hvars, pvars>>

KvUpsert(payloads) ==
    \E uid \in Users, payload \in payloads, t \in Transport :
        LET r == kv_upsert(uid, payload, t, legacy) IN
        /\ reqs' = r.reqs
        /\ kvT' = Applied(kvT, r.reqs, "buildings_kv")
        /\ last' = [op |-> "kv_upsert", uid |-> uid, rows |-> payload,
                    raised |-> r.raised,
                    again |-> /\ last.op = "kv_upsert"
                              /\ last.uid = uid
                              /\ last.rows = payload
                              /\ last.raised \in {"none", "twice"}]
        /\ UNCHANGED <<legacy, trackT, resT>>
        /\ UNCHANGED <<xvars, dvars, hvars, pvars>>

OwnerUpsert ==
    \E uid \in Users, payload \in TrackPayloads, t \in Transport :
        LET r == owner_upsert("buildings_tracking", payload, uid, t, legacy) IN
        /\ reqs' = r.reqs
        /\ trackT' = Applied(trackT, r.reqs, "buildings_tracking")
        /\ last' = [op |-> "owner_upsert", uid |-> uid, rows |-> payload,
                    raised |-> r.raised]
        /\ UNCHANGED <<legacy, kvT, resT>>
        /\ UNCHANGED <<xvars, dvars, hvars, pvars>>

Bootstrap ==
    \E uid \in Users, t1 \in Transport, t2 \in Transport,
       t3 \in Transport, t4 \in Transport :
        LET rs == BootstrapKv(uid, t1, t2, legacy, kvT)
                      \o BootstrapResearch(uid, t3, t4, legacy, resT) IN
        /\ reqs' = rs
        /\ kvT' = Applied(kvT, rs, "buildings_kv")
        /\ resT' = Applied(resT, rs, "research_data")
        /\ last' = [op |-> "bootstrap", uid |-> uid, raised |-> "none"]
        /\ UNCHANGED <<legacy, trackT>>
        /\ UNCHANGED <<xvars, dvars, hvars, pvars>>

KVNext ==
    \/ KvSelect
    \/ KvUpsert(KvPayloads({Zero, One}))

SpecKV == KVInit /\ [][KVNext]_vars

(* --------------- specification: the owner-scoped writes --------------- *)
WritesNext ==
    \/ KvUpsert({<<[key |-> HQ, value |-> One]>>})
    \/ OwnerUpsert
    \/ Bootstrap

SpecWrites == KVInit /\ [][WritesNext]_vars


(* ------------------------------ claim C1 ------------------------------ *)
\* C1: kv_select retries without the owner filter only after a
\* missing-owner-column error of its owner-scoped request (then exactly one
\* retry); after any other failure it sends nothing more and the error
\* reaches the caller.
C1_FallbackOnlyOnSchemaError ==
    last.op = "kv_select" =>
        /\ reqs[1].owner = last.uid
        /\ reqs[1].err = "ok" => Len(reqs) = 1
        /\ reqs[1].err = "schema" =>
               /\ Len(reqs) = 2
               /\ reqs[2] = Sent(SelectReq("buildings_kv", NoOwner, last.keys), reqs[2].err)
        /\ reqs[1].err \notin {"ok", "schema"} =>
               Len(reqs) = 1 /\ last.raised = reqs[1].err

(* ------------------------------ claim C3 ------------------------------ *)
OwnerScopedWrites == {"kv_upsert", "owner_upsert", "bootstrap"}

\* C3: every row an owner-scoped upsert sends carries the caller's id as
\* user_id, and the conflict target of the upsert includes user_id.
C3_UpsertsCarryOwner ==
    last.op \in OwnerScopedWrites =>
        \A i \in 1..Len(reqs) :
            reqs[i].op = "upsert" =>
                /\ \A j \in 1..Len(reqs[i].rows) : reqs[i].rows[j][ID_COL] = last.uid
                /\ ID_COL \in reqs[i].conflict

(* ------------------------------ claim C4 ------------------------------ *)
\* C4: when the owner-scoped upsert fails on the missing owner column, the
\* upsert is sent once more with the owner field stripped from every row
\* and the owner column removed from the conflict target.
C4_UpsertRetriesWithoutOwner ==
    (last.op \in {"kv_upsert", "owner_upsert"} /\ reqs[1].err = "schema") =>
        /\ Len(reqs) = 2
        /\ reqs[2].op = "upsert"
        /\ reqs[2].table = reqs[1].table
        /\ Len(reqs[2].rows) = Len(reqs[1].rows)
        /\ \A j \in 1..Len(reqs[2].rows) : reqs[2].rows[j][ID_COL] = NoOwner
        /\ reqs[2].conflict = reqs[1].conflict \ {ID_COL}

(* ------------------------------ claim C6 ------------------------------ *)
\* C6: kv_upsert called with no rows sends no write request.
C6_EmptyUpsertSendsNothing ==
    (last.op = "kv_upsert" /\ last.rows = <<>>) =>
        \A i \in 1..Len(reqs) : reqs[i].op # "upsert"

(* ------------------------------ claim C7 ------------------------------ *)
\* C7: a read of an ordered key list returns one entry per requested key,
\* in the requested order, whatever order the store returns rows in; the
\* entry of a key that is not stored has no value.
C7_ReadKeepsRequestedOrder ==
    (last.op = "kv_select" /\ last.keys # <<>> /\ last.raised = "none") =>
        /\ Len(last.out) = Len(last.keys)
        /\ \A i \in 1..Len(last.keys) :
               /\ last.out[i].key = last.keys[i]
               /\ Selected(kvT, reqs[Len(reqs)].owner, <<last.keys[i]>>) = {}
                      => last.out[i].value = None

(* ------------------------------ claim C8 ------------------------------ *)
\* C8: kv_upsert applied a second time with the same rows leaves the
\* stored rows as the first application left them.
C8_UpsertTwiceIsOnce ==
    [][(last'.op = "kv_upsert" /\ last'.again) => kvT' = kvT]_vars

C8_Witness ==
    /\ last.op = "kv_upsert"
    /\ last.again
    /\ last.raised = "none"
    /\ Len(last.rows) = 2
    /\ last.rows[1].key # last.rows[2].key
    /\ \A i \in 1..2 :
           [user_id |-> last.uid, key |-> last.rows[i].key,
            value |-> last.rows[i].value] \in DOMAIN kvT


(* --------------------------- Buildings page --------------------------- *)
\* load_kv_map: {r.get("key"): r.get("value") for r in rows}; a later row
\* of a key replaces an earlier one.
load_kv_map(rows) ==
    [k \in {rows[i].key : i \in 1..Len(rows)} |->
        rows[CHOOSE i \in 1..Len(rows) :
                 rows[i].key = k /\ \A j \in (i + 1)..Len(rows) : rows[j].key # k].value]

\* str(v) for v a str or None.
StrOf(v) == IF v = None THEN <<"N", "o", "n", "e">> ELSE v

\* s.strip(), for the blank as the only whitespace.
RECURSIVE py_strip(_)
py_strip(s) ==
    IF s = <<>> THEN s
    ELSE IF Head(s) = " " THEN py_strip(Tail(s))
    ELSE IF s[Len(s)] = " " THEN py_strip(SubSeq(s, 1, Len(s) - 1))
    ELSE s

\* int(float(current_map.get(b, 0) or 0)): whether it returns, and its value.
GridOk(m, b) ==
    LET v == DictGet(m, b) IN v = None \/ v = <<>> \/ float_ok(v)

GridLevel(m, b) ==
    LET v == DictGet(m, b) IN IF v = None \/ v = <<>> THEN 0 ELSE int_float(v)

\* A level cell of the grid is the set of numbers in it: empty when blank.
\* int(r.get("level", 0) or 0)
LevelOf(cell) == IF cell = {} THEN 0 ELSE CHOOSE n \in cell : TRUE

\* rows / df with the hammer and brick columns, before the editor.
Grid(m, tr_rows) ==
    [i \in 1..Len(DEFAULT_BUILDINGS) |->
        LET b == DEFAULT_BUILDINGS[i] IN
        [name |-> b, level |-> {GridLevel(m, b)},
         hammer |-> \E r \in tr_rows : r.name = b /\ r.upgrading,
         brick |-> \E r \in tr_rows : r.name = b /\ r.next]]

\* persist tracking: one row per name of the edited grid, in the order po
\* in which set(edited["name"]) is walked.
TrackingPayload(edited, po) ==
    [i \in 1..Len(po) |->
        [name |-> po[i],
         upgrading |-> \E j \in 1..Len(edited) : edited[j].hammer /\ edited[j].name = po[i],
         next |-> \E j \in 1..Len(edited) : edited[j].brick /\ edited[j].name = po[i]]]

\* if str(current_map.get(key, "")) != str(lvl)
RowDiffersAsNumber(m, key, lvl) == GridLevel(m, key) # lvl

RowDiffers(m, key, lvl) ==
    (IF key \in DOMAIN m THEN StrOf(m[key]) ELSE <<>>) # py_str(lvl)

\* Save changes: the list `changes` after the loop over the edited rows.
RECURSIVE SaveChanges(_, _)
SaveChanges(m, edited) ==
    IF edited = <<>> THEN <<>>
    ELSE LET r == edited[Len(edited)]
             key == py_strip(r.name)
             lvl == LevelOf(r.level)
             before == SaveChanges(m, SubSeq(edited, 1, Len(edited) - 1))
         IN  IF RowDiffers(m, key, lvl)
             THEN Append(before, [key |-> key, value |-> py_str(lvl)])
             ELSE before

(* ---------------- specification: the Buildings page ------------------- *)
BagOf(S) == [r \in S |-> 1]

ZeroOne == <<"0", "1">>

\* buildings_kv at the start: the user's rows, one of them written as "01",
\* and a row of another user.
StartKv ==
    {BagOf(A \cup B) :
        A \in SUBSET {[user_id |-> "U1", key |-> HQ, value |-> ZeroOne],
                      [user_id |-> "U1", key |-> Wall, value |-> One]},
        B \in SUBSET {[user_id |-> "U2", key |-> HQ, value |-> Zero]}}

StartTracking ==
    {EmptyTable,
     BagOf({[user_id |-> "U1", name |-> HQ, upgrading |-> TRUE, next |-> FALSE]})}

\* The runs: whether Save changes is clicked, and the requests of the run
\* that fail in the transport.
Runs ==
    {[clicked |-> FALSE, faults |-> {}]} \cup
    {[clicked |-> TRUE, faults |-> f] :
        f \in {{}, {"kv1"}, {"kv1", "kv2"}, {"tr_sel"}, {"tr_ups"}, {"kv_ups"}}}

Tr(faults, q) == IF q \in faults THEN "timeout" ELSE "ok"

\* The level cells the user leaves in the editor, first row and second.
LevelCells ==
    {<<a, b>> : a \in {{}, {1}}, b \in {{0}, {1}}}

\* What the user does in the editor (num_rows="dynamic"): the level cells,
\* the names whose hammer or brick box is toggled, the names whose row is
\* deleted, and the rows added at the end.
LevelEdits ==
    {[cells |-> c, hammer |-> {}, brick |-> {}, drop |-> {}, extra |-> <<>>] :
        c \in LevelCells}

\* st.data_editor: the frame it returns for the frame `grid` it was given.
Edited(grid, ed) ==
    LET Kept(r) == r.name \notin ed.drop
        cur == [i \in 1..Len(grid) |->
                  [name |-> grid[i].name, level |-> ed.cells[i],
                   hammer |-> (grid[i].hammer # (grid[i].name \in ed.hammer)),
                   brick |-> (grid[i].brick # (grid[i].name \in ed.brick))]]
    IN  SelectSeq(cur, Kept) \o ed.extra

\* all_names = set(edited["name"]) if not edited.empty else set()
AllNames(edited) == {edited[i].name : i \in 1..Len(edited)}

BuildingsInit ==
    /\ legacy \in BOOLEAN
    /\ kvT \in (IF legacy THEN {LegacyKv} ELSE StartKv)
    /\ trackT \in StartTracking
    /\ resT = EmptyTable
    /\ reqs = <<>>
    /\ last = [op |-> "none"]
    /\ ExpandIdle
    /\ DashIdle
    /\ HeroIdle
    /\ PagesIdle

\* The run stops at `stage` with an uncaught exception: nothing is written
\* after the requests rs.
Stopped(uid, stage, rs, m, edited) ==
    /\ reqs' = rs
    /\ kvT' = Applied(kvT, rs, "buildings_kv")
    /\ trackT' = Applied(trackT, rs, "buildings_tracking")
    /\ last' = [op |-> "buildings", uid |-> uid, stage |-> stage,
                current_map |-> m, edited |-> edited, raised |-> "none"]

\* One run of the page for the signed-in user, from load_kv_map to the
\* buttons, for a run of RunSet and an edit of EditSet.
BuildingsPage(RunSet, EditSet) ==
    \E uid \in {"U1"}, run \in RunSet, ed \in EditSet :
        LET faults == run.faults
            clicked == run.clicked
            sel == kv_select(uid, <<>>, Tr(faults, "kv1"), Tr(faults, "kv2"), legacy)
            q_tr == SelectReq("buildings_tracking", uid, <<>>)
            e_tr == Outcome(q_tr, Tr(faults, "tr_sel"), legacy)
            tr_rows == Selected(trackT, uid, <<>>)
        IN
        /\ UNCHANGED <<legacy, resT>>
        /\ UNCHANGED <<xvars, dvars, hvars, pvars>>
        /\ IF sel.raised # "none"
           THEN Stopped(uid, "load", sel.reqs, <<>>, <<>>)
           ELSE \E o \in Orders(Selected(kvT, sel.from, <<>>)) :
                LET current_map == load_kv_map(o)
                    edited == Edited(Grid(current_map, tr_rows), ed)
                IN
                IF \E i \in 1..Len(DEFAULT_BUILDINGS) :
                       ~GridOk(current_map, DEFAULT_BUILDINGS[i])
                THEN Stopped(uid, "grid", sel.reqs, current_map, <<>>)
                ELSE IF e_tr # "ok"
                THEN Stopped(uid, "tracking", sel.reqs \o <<Sent(q_tr, e_tr)>>,
                             current_map, <<>>)
                ELSE \E po \in Orders(AllNames(edited)) :
                     LET payload == TrackingPayload(edited, po)
                         ups == IF payload # <<>>
                                THEN owner_upsert("buildings_tracking", payload, uid,
                                                  Tr(faults, "tr_ups"), legacy)
                                ELSE [reqs |-> <<>>, raised |-> "none"]
                         rs1 == sel.reqs \o <<Sent(q_tr, e_tr)>> \o ups.reqs
                         changes == SaveChanges(current_map, edited)
                         sav == kv_upsert(uid, changes, Tr(faults, "kv_ups"), legacy)
                         rs2 == IF clicked /\ changes # <<>> THEN rs1 \o sav.reqs ELSE rs1
                     IN
                     IF ups.raised # "none"
                     THEN Stopped(uid, "persist", rs1, current_map, edited)
                     ELSE /\ reqs' = rs2
                          /\ kvT' = Applied(kvT, rs2, "buildings_kv")
                          /\ trackT' = Applied(trackT, rs2, "buildings_tracking")
                          /\ last' = [op |-> "buildings", uid |-> uid,
                                      stage |-> IF clicked THEN "save" ELSE "idle",
                                      current_map |-> current_map, edited |-> edited,
                                      raised |-> IF clicked /\ changes # <<>>
                                                 THEN sav.raised ELSE "none"]

BuildingsRun == BuildingsPage(Runs, LevelEdits)

BuildingsNext == BuildingsRun

SpecBuildings == BuildingsInit /\ [][BuildingsNext]_vars

(* ------------------------------ claim C5 ------------------------------ *)
IsKvUpsert(q) == q.op = "upsert" /\ q.table = "buildings_kv"

\* The rows of the edited grid whose value, written as a decimal string,
\* is not the string the snapshot holds for the row's key.
ChangedRows(m, edited) ==
    {i \in 1..Len(edited) :
        LET key == py_strip(edited[i].name) IN
        ~(key \in DOMAIN m /\ m[key] = py_str(LevelOf(edited[i].level)))}

HERO_TABLE == "heroes"

\* sb.table(t).delete()[.eq(ID_COL, owner)][.eq("id", id)][.eq("name", name)]:
\* owner NoOwner, id 0 and name None stand for a predicate that is not sent.
DeleteReq(t, owner, id, name) ==
    [op |-> "delete", table |-> t, owner |-> owner, id |-> id, name |-> name]

Matches(r, q) ==
    /\ q.owner = NoOwner \/ r[ID_COL] = q.owner
    /\ q.id = 0 \/ r.id = q.id
    /\ q.name = None \/ r.name = q.name

\* DELETE ... WHERE the predicates of q.
StoreDelete(T, q) == [r \in {x \in DOMAIN T : ~Matches(x, q)} |-> T[r]]

\* An upsert that finds no conflict: the row is inserted.
HeroInsert(T, row, newId) ==
    LET r == [id |-> newId, user_id |-> row[ID_COL], name |-> row.name,
              level |-> row.level, type |-> row.type, role |-> row.role]
    IN  [x \in DOMAIN T \cup {r} |-> IF x \in DOMAIN T THEN T[x] ELSE 1]

\* upsert(row, on_conflict="user_id,name") on heroes: the row of this owner
\* and name takes the columns sent and keeps its id; without such a row,
\* the row is inserted with the id the table generates.
HeroUpsert(T, row, newId) ==
    LET hit == {s \in DOMAIN T : s[ID_COL] = row[ID_COL] /\ s.name = row.name}
        keep == DOMAIN T \ hit
        WithId(i) == [id |-> i, user_id |-> row[ID_COL], name |-> row.name,
                      level |-> row.level, type |-> row.type, role |-> row.role]
        new == IF hit = {} THEN {WithId(newId)} ELSE {WithId(s.id) : s \in hit}
    IN  [x \in keep \cup new |-> IF x \in keep THEN T[x] ELSE 1]

hero_delete_unscoped(user_id, name) == DeleteReq(HERO_TABLE, NoOwner, 0, name)

\* hero_delete: .delete().eq(ID_COL, user_id).eq("name", name)
hero_delete(user_id, name) == DeleteReq(HERO_TABLE, user_id, 0, name)

\* Delete button: .delete().eq("id", current["id"]).eq(ID_COL, user_id)
page_delete(user_id, current) == DeleteReq(HERO_TABLE, user_id, current.id, None)

\* my_by_name.get(selected): the rows `current` can be.
Current(my_rows, selected) ==
    {r \in my_rows : r.name # <<>> /\ py_strip(r.name) = selected}

\* catalog.get(selected, {}) if selected not in ("", "<Create new>") else {}
\* with its .get("type", "") and .get("role", "").
cat_defaults(catalog, selected, create_new) ==
    IF selected \notin {<<>>, create_new} /\ \E c \in catalog : c.name = selected
    THEN CHOOSE c \in catalog : c.name = selected
    ELSE [name |-> selected, type |-> <<>>, role |-> <<>>]

\* default_type and default_role: the user's row first, then the catalog.
form_defaults(cur, cat) ==
    [type |-> IF cur # {} /\ (CHOOSE r \in cur : TRUE).type # <<>>
              THEN (CHOOSE r \in cur : TRUE).type ELSE cat.type,
     role |-> IF cur # {} /\ (CHOOSE r \in cur : TRUE).role # <<>>
              THEN (CHOOSE r \in cur : TRUE).role ELSE cat.role]

(* ------------------ specification: the hero roster -------------------- *)
Kim == <<"K", "i", "m">>
Mason == <<"M", "a", "s", "o", "n">>

CreateNew == <<"<", "C", "r", "e", "a", "t", "e", " ", "n", "e", "w", ">">>

Tank == <<"T", "a", "n", "k">>
Attack == <<"A", "t", "t", "a", "c", "k">>

\* The rows of hero_catalog, the table all users share.
HeroCatalog == {[name |-> Kim, type |-> Tank, role |-> Attack]}

\* The dropdown, and what the Name field may hold when Save is clicked.
HeroChoices == {CreateNew, Kim}
HeroTyped == {<<>>, Kim, <<" ">> \o Mason}

HeroInit ==
    /\ ExpandIdle
    /\ DashIdle
    /\ StoreIdle
    /\ HeroIdle
    /\ PagesIdle

\* Add or Update Hero: Save.  The Type and Role fields are left as the form
\* prefilled them.
HeroPageSave ==
    \E uid \in Users, selected \in HeroChoices, typed \in HeroTyped, t \in Transport :
        LET stripped == py_strip(typed)
            name == IF stripped = <<>> /\ selected \notin {<<>>, CreateNew}
                    THEN selected ELSE stripped
            current == IF selected # CreateNew
                       THEN Current(Selected(heroT, uid, <<>>), selected) ELSE {}
            defaults == form_defaults(current, cat_defaults(HeroCatalog, selected, CreateNew))
            payload == [user_id |-> uid, name |-> name, level |-> 1,
                        type |-> py_strip(defaults.type), role |-> py_strip(defaults.role)]
            q == UpsertReq(HERO_TABLE, <<payload>>, {ID_COL, "name"})
            e == Outcome(q, t, legacy)
            T1 == IF e = "ok" THEN HeroUpsert(heroT, payload, nextId) ELSE heroT
            inserted == Cardinality(DOMAIN T1) > Cardinality(DOMAIN heroT)
        IN  /\ inserted => nextId <= MaxHeroId
            /\ reqs' = <<Sent(q, e)>>
            /\ heroT' = T1
            /\ nextId' = IF inserted THEN nextId + 1 ELSE nextId
            /\ last' = [op |-> "hero_page_save", uid |-> uid, name |-> name,
                        removed |-> 0, raised |-> "none", stored |-> e = "ok",
                        row |-> payload,
                        again |-> /\ last.op \in {"hero_page_save", "hero_save"}
                                  /\ last.stored
                                  /\ last.row = payload]
            /\ UNCHANGED <<legacy, kvT, trackT, resT>>
            /\ UNCHANGED <<xvars, dvars, pvars>>

\* The rows of T the delete q removes when .execute() ends as e.
AfterDelete(T, q, e) == IF e = "ok" THEN StoreDelete(T, q) ELSE T

Removed(T, T1) == Cardinality(DOMAIN T) - Cardinality(DOMAIN T1)

\* Add or Update Hero: Delete.  The button is shown when the user's rows
\* were loaded and hold the selected hero.
HeroPageDelete ==
    \E uid \in Users, selected \in HeroChoices, t \in Transport :
        \E current \in Current(Selected(heroT, uid, <<>>), selected) :
            LET q0 == SelectReq(HERO_TABLE, uid, <<>>)
                q == page_delete(uid, current)
                T1 == AfterDelete(heroT, q, t)
            IN  /\ current.id # 0
                /\ reqs' = <<Sent(q0, "ok"), q @@ [err |-> t]>>
                /\ heroT' = T1
                /\ last' = [op |-> "hero_page_delete", uid |-> uid,
                            name |-> current.name, removed |-> Removed(heroT, T1),
                            raised |-> "none"]
                /\ UNCHANGED <<legacy, kvT, trackT, resT, nextId>>
                /\ UNCHANGED <<xvars, dvars, pvars>>

\* hero_delete(user_id, name)
HeroDelete ==
    \E uid \in Users, name \in {Kim, Mason}, t \in Transport :
        LET q == hero_delete(uid, name)
            T1 == AfterDelete(heroT, q, t)
        IN  /\ reqs' = <<q @@ [err |-> t]>>
            /\ heroT' = T1
            /\ last' = [op |-> "hero_delete", uid |-> uid, name |-> name,
                        removed |-> Removed(heroT, T1),
                        raised |-> IF t = "ok" THEN "none" ELSE t]
            /\ UNCHANGED <<legacy, kvT, trackT, resT, nextId>>
            /\ UNCHANGED <<xvars, dvars, pvars>>

\* hero_save(user_id, row): row = {**row, ID_COL: user_id}
hero_save(user_id, row) ==
    UpsertReq(HERO_TABLE,
              <<[user_id |-> user_id, name |-> row.name, level |-> row.level,
                 type |-> row.type, role |-> row.role]>>,
              {ID_COL, "name"})

\* The rows hero_save is called with.
HeroRows ==
    {[name |-> n, level |-> 1, type |-> <<>>, role |-> <<>>] : n \in {Kim, Mason}}

HeroSave ==
    \E uid \in Users, row \in HeroRows, t \in Transport :
        LET q == hero_save(uid, row)
            e == Outcome(q, t, legacy)
            T1 == IF e = "ok" THEN HeroUpsert(heroT, q.rows[1], nextId) ELSE heroT
            inserted == Cardinality(DOMAIN T1) > Cardinality(DOMAIN heroT)
        IN  /\ inserted => nextId <= MaxHeroId
            /\ reqs' = <<Sent(q, e)>>
            /\ heroT' = T1
            /\ nextId' = IF inserted THEN nextId + 1 ELSE nextId
            /\ last' = [op |-> "hero_save", uid |-> uid, name |-> row.name,
                        removed |-> 0, raised |-> IF e = "ok" THEN "none" ELSE e,
                        stored |-> e = "ok", row |-> q.rows[1],
                        again |-> /\ last.op \in {"hero_page_save", "hero_save"}
                                  /\ last.stored
                                  /\ last.row = q.rows[1]]
            /\ UNCHANGED <<legacy, kvT, trackT, resT>>
            /\ UNCHANGED <<xvars, dvars, pvars>>

HeroNext ==
    \/ HeroPageSave
    \/ HeroSave
    \/ HeroPageDelete
    \/ HeroDelete

SpecHero == HeroInit /\ [][HeroNext]_vars

(* ------------------------------ claim C2 ------------------------------ *)
HeroDeletes == {"hero_page_delete", "hero_delete"}

\* C2: every delete of a hero is sent with the caller's id as the owner
\* predicate and with a predicate on the row's identity (its id, or its
\* name), and it leaves every row of every other user in the table.
C2_DeleteKeepsOtherOwners ==
    [][last'.op \in HeroDeletes =>
          /\ \A i \in 1..Len(reqs') :
                 reqs'[i].op = "delete" =>
                     /\ reqs'[i].owner = last'.uid
                     /\ reqs'[i].id # 0 \/ reqs'[i].name # None
          /\ \A r \in DOMAIN heroT :
                 r[ID_COL] # last'.uid => r \in DOMAIN heroT' /\ heroT'[r] = heroT[r]]_vars

\* U2 has deleted its hero of a name under which U1 holds a hero too.
C2_Witness ==
    /\ last.op \in HeroDeletes
    /\ last.uid = "U2"
    /\ last.removed = 1
    /\ \E r \in DOMAIN heroT : r[ID_COL] = "U1" /\ r.name = last.name

(* ----------------- Dashboard: Highest Building Level ------------------ *)
\* SERIES, cut to the bases of the Highest Building Level metrics.
TechCenter == <<"T">>

SERIES(base) == IF base = TechCenter THEN <<1, 2, 3>> ELSE <<1, 2, 3, 4>>

\* _to_int(x): int(float(x)), 0 when it raises.
to_int(x) == IF x # None /\ float_ok(x) THEN int_float(x) ELSE 0

\* k2.startswith(p)
StartsWith(k, p) == Len(k) >= Len(p) /\ SubSeq(k, 1, Len(p)) = p

\* _by_prefix(prefix): the stripped keys of lvl_map that are the prefix or
\* start with the prefix and a blank.  (It returns them sorted; the order
\* shows only in the breakdown text.)
by_prefix(lvl_map, prefix) ==
    LET pref == py_strip(prefix) IN
    {py_strip(k) : k \in {x \in DOMAIN lvl_map :
        /\ py_strip(x) # <<>>
        /\ py_strip(x) = pref \/ StartsWith(py_strip(x), pref \o <<" ">>)}}

SetMax(S) == CHOOSE x \in S : \A y \in S : y <= x

\* _max_level(names)[0]
max_level(lvl_map, ns) ==
    IF ns = {} THEN 0
    ELSE SetMax({to_int(IF n \in DOMAIN lvl_map THEN lvl_map[n] ELSE Zero) : n \in ns})

\* tech_center_names = ["Tech Center 1", "Tech Center 2", "Tech Center 3"]
tech_center_names == {SeriesKey(TechCenter, i) : i \in 1..3}

\* The names a metric of the Dashboard is computed over: the explicit list
\* for Tech Center, the keys found by prefix for the other series.
MetricNames(lvl_map, base) ==
    IF base = TechCenter THEN tech_center_names ELSE by_prefix(lvl_map, base)

(* ------------ specification: Highest Building Level metrics ----------- *)
Two == <<"2">>

\* Keys in the configured ranges, past them, with a suffix that is no
\* number, and of another building whose name starts alike.
HighestKeys ==
    {SeriesKey(Hospital, 1), SeriesKey(Hospital, 5), Hospital \o <<" ", "A">>,
     Hospital \o <<"Q", " ", "1">>, SeriesKey(TechCenter, 1), SeriesKey(TechCenter, 4)}

HighestInit ==
    /\ kv_map_full \in UNION {[D -> {One, Two}] : D \in SUBSET HighestKeys}
    /\ dres = [fn |-> "none"]
    /\ ExpandIdle
    /\ StoreIdle
    /\ HeroIdle
    /\ PagesIdle

HighestLevel ==
    \E base \in {Hospital, Barracks, TechCenter} :
        /\ dres' = [fn |-> "_max_level", base |-> base,
                    val |-> max_level(kv_map_full, MetricNames(kv_map_full, base))]
        /\ UNCHANGED kv_map_full
        /\ UNCHANGED <<xvars, svars, hvars, pvars>>

HighestNext == HighestLevel

SpecHighest == HighestInit /\ [][HighestNext]_vars

(* ----------------------------- claim C12 ------------------------------ *)
\* C12: the highest level shown for a series is the greatest level stored
\* under "<base> <i>" for i in the configured range of the base, a missing
\* key counting as 0, whatever other keys the user's data holds.
C12_HighestOverConfiguredRange ==
    dres.fn = "_max_level" =>
        dres.val = SetMax(SeriesLevels(kv_map_full, dres.base, SERIES(dres.base)))

(* ------------------------- Dashboard: get_level ----------------------- *)
Upper == <<"A", "B", "C", "D", "E", "F", "G", "H", "I", "J", "K", "L", "M", "N", "O", "P", "Q", "R", "S", "T", "U", "V", "W", "X", "Y", "Z">>
Lower == <<"a", "b", "c", "d", "e", "f", "g", "h", "i", "j", "k", "l", "m", "n", "o", "p", "q", "r", "s", "t", "u", "v", "w", "x", "y", "z">>

\* s.lower(), for the letters A to Z.
py_lower(s) ==
    [i \in 1..Len(s) |->
        IF \E j \in 1..26 : Upper[j] = s[i]
        THEN Lower[CHOOSE j \in 1..26 : Upper[j] = s[i]] ELSE s[i]]

ALIASES ==
    (<<"o", "i", "l", " ", "w", "a", "l", "l">> :>
        <<"O", "i", "l", " ", "W", "e", "l", "l">>) @@
    (<<"c", "o", "i", "l", " ", "v", "a", "u", "l", "t">> :>
        <<"C", "o", "i", "n", " ", "V", "a", "u", "l", "t">>) @@
    (<<"f", "a", "r", "m", " ", "w", "a", "r", "e", "h", "o", "u", "s", "e">> :>
        <<"F", "o", "o", "d", " ", "W", "a", "r", "e", "h", "o", "u", "s", "e">>) @@
    (<<"t", "a", "c", "t", "i", "c", "a", "l", " ", "i", "n", "s", "t", "i", "t", "u", "t", "e">> :>
        <<"T", "e", "c", "h", "n", "i", "c", "a", "l", " ", "I", "n", "s", "t", "i", "t", "u", "t", "e">>) @@
    (<<"t", "r", "a", "i", "n", "i", "n", "g", " ", "g", "r", "o", "u", "n", "d", "s">> :>
        <<"D", "r", "i", "l", "l", " ", "G", "r", "o", "u", "n", "d">>)

\* ALIASES.get(name.lower(), name)
AliasOf(name) ==
    IF py_lower(name) \in DOMAIN ALIASES THEN ALIASES[py_lower(name)] ELSE name

\* The key get_level reads for a name.
LevelKey(name) == AliasOf(name)

\* get_level(name)
get_level(m, name) ==
    LET v == DictGet(m, LevelKey(name)) IN
    IF v = None THEN 0 ELSE IF float_ok(v) THEN int_float(v) ELSE 0

(* ----------------- specification: lookups by name --------------------- *)
CoinVault == <<"C", "o", "i", "n", " ", "V", "a", "u", "l", "t">>
CoilVault == <<"C", "o", "i", "l", " ", "V", "a", "u", "l", "t">>
COIL_VAULT == <<"C", "O", "I", "L", " ", "V", "A", "U", "L", "T">>
DrillGround == <<"D", "r", "i", "l", "l", " ", "G", "r", "o", "u", "n", "d">>
TrainingGrounds == <<"T", "r", "a", "i", "n", "i", "n", "g", " ", "G", "r", "o", "u", "n", "d", "s">>

LookupKeys ==
    {CoinVault, CoilVault, SeriesKey(DrillGround, 1), SeriesKey(TrainingGrounds, 1)}

LookupInit ==
    /\ kv_map_full \in UNION {[D -> {One, Two, <<"x">>}] : D \in SUBSET LookupKeys}
    /\ dres = [fn |-> "none"]
    /\ ExpandIdle
    /\ StoreIdle
    /\ HeroIdle
    /\ PagesIdle

LookupLevel ==
    \E name \in {CoinVault, CoilVault, COIL_VAULT, Wall} :
        /\ dres' = [fn |-> "get_level", name |-> name, rng |-> <<>>,
                    val |-> get_level(kv_map_full, name)]
        /\ UNCHANGED kv_map_full
        /\ UNCHANGED <<xvars, svars, hvars, pvars>>

LookupMax ==
    \E base \in {DrillGround, TrainingGrounds}, rng \in {<<1>>, <<1, 2>>} :
        /\ dres' = [fn |-> "max_series_local", name |-> base, rng |-> rng,
                    val |-> max_series_local(kv_map_full, base, rng)]
        /\ UNCHANGED kv_map_full
        /\ UNCHANGED <<xvars, svars, hvars, pvars>>

LookupSum ==
    \E base \in {DrillGround, TrainingGrounds}, rng \in {<<1>>, <<1, 2>>} :
        /\ dres' = [fn |-> "sum_series_local", name |-> base, rng |-> rng,
                    val |-> sum_series_local(kv_map_full, base, rng)]
        /\ UNCHANGED kv_map_full
        /\ UNCHANGED <<xvars, svars, hvars, pvars>>

LookupNext ==
    \/ LookupLevel
    \/ LookupMax
    \/ LookupSum

SpecLookup == LookupInit /\ [][LookupNext]_vars

(* ----------------------------- claim C13 ------------------------------ *)
\* The name the alias table gives for a name, letter case aside.
Canonical(name) ==
    IF \E k \in DOMAIN ALIASES : py_lower(k) = py_lower(name)
    THEN ALIASES[CHOOSE k \in DOMAIN ALIASES : py_lower(k) = py_lower(name)]
    ELSE name

\* C13: every lookup of a level by name reads the store under the name the
\* alias table gives for it, letter case aside: get_level under the alias of
\* the name, the series maximum and sum under "<alias of base> <suffix>".
C13_LookupsResolveAliases ==
    /\ dres.fn = "get_level" =>
           dres.val = StoredLevel(kv_map_full, Canonical(dres.name))
    /\ dres.fn = "max_series_local" =>
           dres.val = SetMax(SeriesLevels(kv_map_full, Canonical(dres.name), dres.rng))
    /\ dres.fn = "sum_series_local" =>
           dres.val = LevelsSum(kv_map_full, Canonical(dres.name), dres.rng)

(* --------------------- Dashboard: percent of HQ ----------------------- *)
\* A float that is a quotient of integers is kept as the quotient num/den
\* with den > 0, so that nothing is lost before round().
Ratio(n, d) == [num |-> n, den |-> d]

RECURSIVE GCD(_, _)
GCD(a, b) == IF b = 0 THEN a ELSE GCD(b, a % b)

Abs(x) == IF x < 0 THEN 0 - x ELSE x

RECURSIVE PowerOfTwo(_)
PowerOfTwo(n) == n = 1 \/ (n > 1 /\ n % 2 = 0 /\ PowerOfTwo(n \div 2))

\* Whether the double a / b is the quotient itself: its denominator in
\* lowest terms is a power of two.
ExactQuotient(a, b) == PowerOfTwo(b \div GCD(Abs(a), b))

\* pct_of_hq_single(name): (get_level(name) / hq) * 100.0, and whether the
\* double it yields is that number exactly.
pct_of_hq_single(m, name) ==
    LET hq == get_level(m, HQ) IN
    IF hq <= 0 THEN [pct |-> Ratio(0, 1), exact |-> TRUE]
    ELSE [pct |-> Ratio(100 * get_level(m, name), hq),
          exact |-> ExactQuotient(get_level(m, name), hq)]

\* pct_of_hq_sum(base, series_key): (total / denom) * 100.0
pct_of_hq_sum(m, base, series_key) ==
    LET hq == get_level(m, HQ)
        rng == SERIES(series_key)
        total == sum_series_local(m, base, rng)
        denom == Len(rng) * hq
    IN  IF hq <= 0 \/ denom <= 0 THEN [pct |-> Ratio(0, 1), exact |-> TRUE]
        ELSE [pct |-> Ratio(100 * total, denom), exact |-> ExactQuotient(total, denom)]

\* int(round(pct)): round() of a double gives the nearest integer and, half
\* way between two, the even one.  A product that is not exact may reach
\* round() a last bit under or over the half, so either neighbour results.
py_round(f) ==
    LET k == f.pct.num \div f.pct.den
        r2 == 2 * (f.pct.num - k * f.pct.den)
    IN  IF r2 < f.pct.den THEN {k}
        ELSE IF r2 > f.pct.den THEN {k + 1}
        ELSE IF f.exact THEN {IF k % 2 = 0 THEN k ELSE k + 1}
        ELSE {k, k + 1}

Min(a, b) == IF a < b THEN a ELSE b
Max(a, b) == IF a > b THEN a ELSE b

\* max(0, min(100, n))
ClampWide(n) == Max(0, Min(150, n))

Clamp(n) == Max(0, Min(100, n))

\* pct_chip(pct): the values p the chip may show.
pct_chip(f) == {Clamp(n) : n \in py_round(f)}

(* ---------------- specification: Building Progress chips ------------- *)
\* Stored levels: 0 to MaxLevel as the pages write them, and one below 0.
LevelStrings == {py_str(n) : n \in 0..MaxLevel} \cup {<<"-", "1">>}

\* HQ and Wall hold any level (HQ may be absent); the first two keys of the
\* Tech Center series hold little or nothing.
PctInit ==
    /\ \E h \in LevelStrings \cup {None}, w \in LevelStrings,
          a \in {None, One, Two}, b \in {None, Two} :
          LET D == {Wall} \cup (IF h = None THEN {} ELSE {HQ})
                       \cup (IF a = None THEN {} ELSE {SeriesKey(TechCenter, 1)})
                       \cup (IF b = None THEN {} ELSE {SeriesKey(TechCenter, 2)})
          IN  kv_map_full = [k \in D |-> IF k = HQ THEN h
                                         ELSE IF k = Wall THEN w
                                         ELSE IF k = SeriesKey(TechCenter, 1) THEN a
                                         ELSE b]
    /\ dres = [fn |-> "none"]
    /\ ExpandIdle
    /\ StoreIdle
    /\ HeroIdle
    /\ PagesIdle

\* A chip of a single building: pct_chip(pct_of_hq_single(name)).
ChipSingle ==
    \E name \in {Wall} :
        \E p \in pct_chip(pct_of_hq_single(kv_map_full, name)) :
            /\ dres' = [fn |-> "pct_of_hq_single", name |-> name, val |-> p]
            /\ UNCHANGED kv_map_full
            /\ UNCHANGED <<xvars, svars, hvars, pvars>>

\* A chip of a series: pct_chip(pct_of_hq_sum(base, base)).
ChipSum ==
    \E base \in {TechCenter} :
        \E p \in pct_chip(pct_of_hq_sum(kv_map_full, base, base)) :
            /\ dres' = [fn |-> "pct_of_hq_sum", name |-> base, val |-> p]
            /\ UNCHANGED kv_map_full
            /\ UNCHANGED <<xvars, svars, hvars, pvars>>

PctNext ==
    \/ ChipSingle
    \/ ChipSum

SpecPct == PctInit /\ [][PctNext]_vars

(* ----------------------------- claim C14 ------------------------------ *)
\* n is an integer nearest to a / b (b > 0).
Nearest(n, a, b) == 2 * Abs(n * b - a) <= b

\* C14: the percent a single building's chip shows is 0 when the HQ level
\* is 0 or less, and otherwise value / HQ level * 100 rounded to a nearest
\* integer and then cut to the range 0..100.
C14_SinglePercent ==
    dres.fn = "pct_of_hq_single" =>
        LET value == StoredLevel(kv_map_full, dres.name)
            baseline == StoredLevel(kv_map_full, HQ)
            k == (100 * value) \div (IF baseline > 0 THEN baseline ELSE 1)
        IN  IF baseline <= 0 THEN dres.val = 0
            ELSE \E n \in {k, k + 1} :
                     /\ Nearest(n, 100 * value, baseline)
                     /\ dres.val = Max(0, Min(100, n))

\* Wall 3 against HQ 2 is 150 percent and shows as 100.
C14_Witness ==
    /\ dres.fn = "pct_of_hq_single"
    /\ dres.name = Wall
    /\ HQ \in DOMAIN kv_map_full
    /\ kv_map_full[HQ] = Two
    /\ kv_map_full[Wall] = <<"3">>
    /\ dres.val = 100

(* ----------------------------- claim C15 ------------------------------ *)
\* C15: the percent a series' chip shows is the series sum divided by
\* count x HQ level, as a percentage rounded to a nearest integer, cut to
\* the range 0..150: a value between 100 and 150 is shown as it is.
C15_GroupedPercent ==
    dres.fn = "pct_of_hq_sum" =>
        LET total == LevelsSum(kv_map_full, dres.name, SERIES(dres.name))
            baseline == StoredLevel(kv_map_full, HQ)
            denom == Len(SERIES(dres.name)) * baseline
            k == (100 * total) \div (IF denom > 0 THEN denom ELSE 1)
        IN  IF baseline <= 0 THEN dres.val = 0
            ELSE \E n \in {k, k + 1} :
                     /\ Nearest(n, 100 * total, denom)
                     /\ dres.val = Max(0, Min(150, n))

(* ------------------------ research_completion ------------------------ *)
\* A cell of the frame is the set of numbers in it: empty when it holds
\* nothing pd.to_numeric(..., errors="coerce") takes for a number.
\* pd.to_numeric(cell, errors="coerce").fillna(0)
to_numeric(cell) == IF cell = {} THEN 0 ELSE CHOOSE n \in cell : TRUE

\* np.minimum(levels[valid], maxes[valid])
Unclamped(level, max) == level

Clamped(level, max) == Min(level, max)

\* valid = maxes > 0
Valid(df) == {i \in 1..Len(df) : to_numeric(df[i].max_level) > 0}

\* frac.sum() over the rows i of V, as a quotient.
RECURSIVE FracSum(_, _)
FracSum(df, V) ==
    IF V = {} THEN Ratio(0, 1)
    ELSE LET i == CHOOSE x \in V : TRUE
             rest == FracSum(df, V \ {i})
             m == to_numeric(df[i].max_level)
             c == Clamped(to_numeric(df[i].level), m)
         IN  Ratio(c * rest.den + rest.num * m, m * rest.den)

\* research_completion(df), in tenths of a percent: round(x, 1) of the
\* double x = frac.mean() * 100 is the nearest tenth, the even one at an
\* exact half; x is exact when every quotient and the mean are.
research_completion(df) ==
    LET V == Valid(df)
        sum == FracSum(df, V)
        n == Cardinality(V)
    IN  IF df = <<>> \/ V = {} THEN {0}
        ELSE py_round([pct |-> Ratio(1000 * sum.num, sum.den * n),
                       exact |-> /\ PowerOfTwo(n)
                                 /\ \A i \in V : PowerOfTwo(to_numeric(df[i].max_level))])

\* df["max_level"].replace(0, 1), after fillna(1) on the Dashboard.
Denom(cell) == IF to_numeric(cell) = 0 THEN 1 ELSE to_numeric(cell)

\* The sum over the rows S of num(level) / Denom(max_level), as a quotient,
\* where clip tells whether the level is clipped at 0 from below.
RECURSIVE RawFracSum(_, _, _)
RawFracSum(df, S, clip) ==
    IF S = {} THEN Ratio(0, 1)
    ELSE LET i == CHOOSE x \in S : TRUE
             rest == RawFracSum(df, S \ {i}, clip)
             m == Denom(df[i].max_level)
             l == to_numeric(df[i].level)
             c == IF clip THEN Max(l, 0) ELSE l
         IN  Ratio(c * rest.den + rest.num * m, m * rest.den)

RawExact(df) ==
    /\ PowerOfTwo(Len(df))
    /\ \A i \in 1..Len(df) : PowerOfTwo(Denom(df[i].max_level))

\* Research page, the label of a category: pct as f"{pct:.1f}" prints it, in
\* tenths of a percent.
page_pct(sub) ==
    IF sub = <<>> THEN {0}
    ELSE LET sum == RawFracSum(sub, 1..Len(sub), TRUE) IN
         py_round([pct |-> Ratio(1000 * sum.num, sum.den * Len(sub)),
                   exact |-> RawExact(sub)])

\* Dashboard, Research Progress: the mean of pct over a category, round(1),
\* then the chip pct_chip(pct) shows, in percent.
chip_pct(sub) ==
    LET sum == RawFracSum(sub, 1..Len(sub), FALSE)
        tenths == py_round([pct |-> Ratio(1000 * sum.num, sum.den * Len(sub)),
                            exact |-> RawExact(sub)])
    IN  UNION {pct_chip([pct |-> Ratio(t, 10), exact |-> TRUE]) : t \in tenths}

(* -------------- specification: research_completion -------------------- *)
ResearchCells(lo) == {{}} \cup {{n} : n \in lo..MaxResearchLevel}

ResearchFrameRows == [level : ResearchCells(0 - 1), max_level : ResearchCells(0)]

\* Frames of at most two rows.
ResearchFrames ==
    {<<>>} \cup {<<r>> : r \in ResearchFrameRows}
           \cup {<<r, q>> : r \in ResearchFrameRows, q \in ResearchFrameRows}

ResearchInit ==
    /\ dres = [fn |-> "none"]
    /\ kv_map_full = <<>>
    /\ ExpandIdle
    /\ StoreIdle
    /\ HeroIdle
    /\ PagesIdle

Completion ==
    \E df \in ResearchFrames :
        \E v \in research_completion(df) :
            /\ dres' = [fn |-> "research_completion", df |-> df, val |-> v]
            /\ UNCHANGED kv_map_full
            /\ UNCHANGED <<xvars, svars, hvars, pvars>>

\* The rows of one category as load_research_for_user returns them: every
\* level and max_level a number.
CategoryFrames ==
    {df \in ResearchFrames :
        /\ df # <<>>
        /\ \A i \in 1..Len(df) : df[i].level # {} /\ df[i].max_level # {}}

PageCompletion ==
    \E df \in CategoryFrames :
        \E v \in page_pct(df) :
            /\ dres' = [fn |-> "page_pct", df |-> df, val |-> v]
            /\ UNCHANGED kv_map_full
            /\ UNCHANGED <<xvars, svars, hvars, pvars>>

DashboardChip ==
    \E df \in CategoryFrames :
        \E v \in chip_pct(df) :
            /\ dres' = [fn |-> "chip_pct", df |-> df, val |-> v]
            /\ UNCHANGED kv_map_full
            /\ UNCHANGED <<xvars, svars, hvars, pvars>>

ResearchNext == Completion \/ PageCompletion \/ DashboardChip

SpecResearch == ResearchInit /\ [][ResearchNext]_vars

(* ----------------------------- claim C16 ------------------------------ *)
\* The numbers of a cell, 0 for a cell without a number.
CellValue(cell) == IF cell = {} THEN 0 ELSE CHOOSE n \in cell : TRUE

RECURSIVE Product(_, _)
Product(df, V) ==
    IF V = {} THEN 1
    ELSE LET i == CHOOSE x \in V : TRUE IN CellValue(df[i].max_level) * Product(df, V \ {i})

\* The sum over V of min(level, max_level) / max_level, times L, where L is
\* the product of the max levels of V.
RECURSIVE ScaledSum(_, _, _)
ScaledSum(df, V, L) ==
    IF V = {} THEN 0
    ELSE LET i == CHOOSE x \in V : TRUE
             l == CellValue(df[i].level)
             m == CellValue(df[i].max_level)
         IN  (IF l < m THEN l ELSE m) * (L \div m) + ScaledSum(df, V \ {i}, L)

\* C16: research_completion is 0.0 for an empty frame or one without a row
\* of positive max_level; otherwise it is, to the nearest tenth, 100 times
\* the mean of min(level, max_level) / max_level over the rows of positive
\* max_level.
C16_ResearchCompletion ==
    dres.fn = "research_completion" =>
        LET df == dres.df
            V == {i \in 1..Len(df) : CellValue(df[i].max_level) > 0}
            L == Product(df, V)
            n == Cardinality(V)
        IN  IF V = {} THEN dres.val = 0
            ELSE Nearest(dres.val, 1000 * ScaledSum(df, V, L), L * n)

\* A level over its max_level counts as the max: {3 of 1, 1 of 2} is 75.0.
C16_Witness ==
    /\ dres.fn = "research_completion"
    /\ dres.df = <<[level |-> {3}, max_level |-> {1}], [level |-> {1}, max_level |-> {2}]>>
    /\ dres.val = 750

(* ----------------------------- claim C17 ------------------------------ *)
\* C17: after a hero is saved under a name the catalog holds, with the Type
\* and Role fields left as they were, the stored row of that owner and name
\* has the type and the role of the catalog entry.
C17_SaveFillsFromCatalog ==
    (last.op = "hero_page_save" /\ last.stored) =>
        \A c \in HeroCatalog :
            c.name = last.name =>
                \E r \in DOMAIN heroT :
                    /\ r[ID_COL] = last.uid
                    /\ r.name = last.name
                    /\ r.type = c.type
                    /\ r.role = c.role

(* ----------------------------- claim C18 ------------------------------ *)
HeroSaves == {"hero_page_save", "hero_save"}

OwnRows(T, uid, name) == {r \in DOMAIN T : r[ID_COL] = uid /\ r.name = name}

\* C18: heroes never holds two rows of one owner and name.  A save that
\* is stored under a name the owner has keeps that row's id and the number
\* of rows, a save under a new name adds one row, the stored row carries
\* the saved columns, and a save of the payload just saved changes nothing.
C18_OneRowPerOwnerAndName ==
    [][/\ \A r \in DOMAIN heroT' :
              heroT'[r] = 1 /\ OwnRows(heroT', r[ID_COL], r.name) = {r}
       /\ (last'.op \in HeroSaves /\ last'.stored) =>
              LET had == OwnRows(heroT, last'.uid, last'.name)
                  has == OwnRows(heroT', last'.uid, last'.name)
              IN  /\ Cardinality(DOMAIN heroT') =
                         Cardinality(DOMAIN heroT) + (IF had = {} THEN 1 ELSE 0)
                  /\ \A r \in had : \E q \in has : q.id = r.id
                  /\ \A q \in has : /\ q.type = last'.row.type
                                    /\ q.role = last'.row.role
                                    /\ q.level = last'.row.level
                  /\ \A r \in DOMAIN heroT \ had : r \in DOMAIN heroT'
                  /\ last'.again => heroT' = heroT]_vars

\* The same payload was stored twice running, for an owner whose row of
\* that name existed before with another type, next to another row.
C18_Witness ==
    /\ last.op \in HeroSaves
    /\ last.stored
    /\ last.again
    /\ Cardinality(DOMAIN heroT) >= 2
    /\ \E r \in OwnRows(heroT, last.uid, last.name) : r.id < nextId - 1

(* ------- specification: the tracking flags of the Buildings page ------- *)
Old == <<"O", "l", "d">>

Blank == <<" ">>

\* A row added in the editor whose Building cell holds one space.
BlankRow == [name |-> Blank, level |-> {}, hammer |-> FALSE, brick |-> FALSE]

\* buildings_tracking at the start: empty, or the user's flags for HQ and
\* for a name that is no longer in DEFAULT_BUILDINGS, and a row of another
\* user.
TrackingStart ==
    {EmptyTable,
     BagOf({[user_id |-> "U1", name |-> HQ, upgrading |-> TRUE, next |-> FALSE],
            [user_id |-> "U1", name |-> Old, upgrading |-> FALSE, next |-> TRUE],
            [user_id |-> "U2", name |-> HQ, upgrading |-> FALSE, next |-> TRUE]})}

TrackingRuns ==
    {[clicked |-> FALSE, faults |-> {}],
     [clicked |-> FALSE, faults |-> {"tr_ups"}],
     [clicked |-> TRUE, faults |-> {}]}

TrackingEdits ==
    {[cells |-> <<{1}, {1}>>, hammer |-> h, brick |-> {}, drop |-> d, extra |-> x] :
        h \in {{}, {HQ}}, d \in {{}, {Wall}}, x \in {<<>>, <<BlankRow>>}}

TrackingInit ==
    /\ legacy = FALSE
    /\ kvT = BagOf({[user_id |-> "U1", key |-> HQ, value |-> One]})
    /\ trackT \in TrackingStart
    /\ resT = EmptyTable
    /\ reqs = <<>>
    /\ last = [op |-> "none"]
    /\ ExpandIdle
    /\ DashIdle
    /\ HeroIdle
    /\ PagesIdle

TrackingRun == BuildingsPage(TrackingRuns, TrackingEdits)

TrackingNext == TrackingRun

SpecTracking == TrackingInit /\ [][TrackingNext]_vars

(* ------------------------------ claim C19 ----------------------------- *)
\* C19: a tracking-flag save never writes a record with an empty or blank
\* name: buildings_tracking holds no row whose name is empty once stripped.
C19_NoBlankNameStored ==
    \A r \in DOMAIN trackT : py_strip(r.name) # <<>>

(* ------------------------------ claim C20 ----------------------------- *)
\* The rows of buildings_tracking a run of the page for uid may touch: the
\* rows of uid under a name of the submitted grid.
InGrid(r, uid, edited) == r.user_id = uid /\ r.name \in AllNames(edited)

\* C20: a tracking-flag save touches only the names of the submitted grid:
\* every stored row of the owner under another name, and every row of
\* another owner, is kept as it was, and no row appears under another name
\* or another owner.
C20_SaveTouchesOnlyGridNames ==
    [][last'.op = "buildings" =>
         /\ \A r \in DOMAIN trackT :
                ~InGrid(r, last'.uid, last'.edited) =>
                    r \in DOMAIN trackT' /\ trackT'[r] = trackT[r]
         /\ \A r \in DOMAIN trackT' \ DOMAIN trackT :
                InGrid(r, last'.uid, last'.edited)]_vars

\* A run has written the flags of HQ while Wall, whose flags are stored, was
\* deleted from the grid, and Old and the other user's HQ are stored.
C20_Witness ==
    /\ last.op = "buildings"
    /\ last.stage \in {"idle", "save"}
    /\ Wall \notin AllNames(last.edited)
    /\ \E i \in 1..Len(reqs) :
           /\ reqs[i].op = "upsert"
           /\ reqs[i].table = "buildings_tracking"
           /\ reqs[i].err = "ok"
    /\ \E r \in DOMAIN trackT : r.user_id = "U1" /\ r.name = Wall
    /\ [user_id |-> "U1", name |-> HQ, upgrading |-> FALSE, next |-> FALSE]
           \in DOMAIN trackT
    /\ [user_id |-> "U1", name |-> Old, upgrading |-> FALSE, next |-> TRUE]
           \in DOMAIN trackT
    /\ [user_id |-> "U2", name |-> HQ, upgrading |-> FALSE, next |-> TRUE]
           \in DOMAIN trackT

(* ------------------------------ claim C21 ----------------------------- *)
\* C21: a hero save whose resulting name is empty is rejected before any
\* request is sent: after such a Save no request went to the store and no
\* row with an empty name is stored.
C21_EmptyNameSendsNothing ==
    /\ (last.op = "hero_page_save" /\ last.name = <<>>) => reqs = <<>>
    /\ \A r \in DOMAIN heroT : r.name # <<>>

(* ------------------------------ claim C22 ----------------------------- *)
\* C22: an error raised by the store for a write is never discarded
\* silently: whenever a write of the last operation failed, the operation
\* ended with that error raised to its caller.
C22_WriteErrorsAreRaised ==
    \A i \in 1..Len(reqs) :
        (reqs[i].op = "upsert" /\ reqs[i].err # "ok") => last.raised # "none"

(* ------------------------------ claim C23 ----------------------------- *)
\* C23: a failed store write of a user action is caught and does not abort
\* the page run: a run of the Buildings page in which an upsert failed still
\* reaches its buttons (stage "idle" or "save").
C23_WriteFailureIsCaught ==
    (/\ last.op = "buildings"
     /\ \E i \in 1..Len(reqs) : reqs[i].op = "upsert" /\ reqs[i].err # "ok")
        => last.stage \in {"idle", "save"}

(* ------------------------------ claim C24 ----------------------------- *)
\* C24: every research completion percentage clamps each level to its max
\* level before averaging: what the Research page label and the Dashboard
\* chip show for a category is never above 100%, and for rows of positive
\* max_level never above the mean of min(level, max_level) / max_level
\* rounded up to the unit shown (a tenth for the label, 1 for the chip).
C24_CompletionClampsLevels ==
    dres.fn \in {"page_pct", "chip_pct"} =>
        LET df == dres.df
            V == 1..Len(df)
            L == Product(df, V)
            unit == IF dres.fn = "page_pct" THEN 1000 ELSE 100
        IN  /\ dres.val <= unit
            /\ (\A i \in V : CellValue(df[i].max_level) > 0) =>
                   (dres.val - 1) * L * Len(df) < unit * ScaledSum(df, V, L)
                   \/ dres.val * L * Len(df) = unit * ScaledSum(df, V, L)

(* ------------------------------ Profiles ------------------------------ *)
\* The keys of the key-value fallback, each one symbol.
DISPLAY_NAME == <<"display_name">>
AVATAR_URL == <<"avatar_url">>

ProfileColumns == {"user_id", "display_name", "avatar_url"}

\* sb.table("profiles").upsert(obj, on_conflict=ID_COL): the row of that
\* user takes the columns obj names and keeps its others; without such a
\* row one is inserted, its other columns null.
ProfileUpsert(T, obj) ==
    LET hit == {r \in DOMAIN T : r.user_id = obj.user_id}
        Merge(r) == [c \in ProfileColumns |-> IF c \in DOMAIN obj THEN obj[c] ELSE r[c]]
        fresh == [user_id |-> obj.user_id, display_name |-> None, avatar_url |-> None]
        new == IF hit = {} THEN {Merge(fresh)} ELSE {Merge(r) : r \in hit}
    IN  [r \in (DOMAIN T \ hit) \cup new |-> 1]

\* obj of save_profile; an argument that is None is not put in it.
ProfileObj(uid, display_name, avatar_url) ==
    [c \in {"user_id"} \cup (IF display_name # None THEN {"display_name"} ELSE {})
                        \cup (IF avatar_url # None THEN {"avatar_url"} ELSE {}) |->
        IF c = "user_id" THEN uid
        ELSE IF c = "display_name" THEN display_name ELSE avatar_url]

\* kv_payload of save_profile
ProfileKvPayload(display_name, avatar_url) ==
    (IF display_name # None
     THEN <<[key |-> DISPLAY_NAME, value |-> display_name]>> ELSE <<>>)
    \o (IF avatar_url # None
        THEN <<[key |-> AVATAR_URL, value |-> avatar_url]>> ELSE <<>>)

\* save_profile: the requests it sends, whether the profiles upsert was
\* stored, and what it returns; t1 and t2 are what the transport does to
\* the profiles upsert and to the key-value upsert.
save_profile(uid, display_name, avatar_url, t1, t2, leg) ==
    LET obj == ProfileObj(uid, display_name, avatar_url)
        q1 == UpsertReq("profiles", <<obj>>, {ID_COL})
        kv_payload == ProfileKvPayload(display_name, avatar_url)
        sav == kv_upsert(uid, kv_payload, t2, leg)
    IN  IF t1 = "ok"
        THEN [reqs |-> <<Sent(q1, "ok")>>, ret |-> TRUE]
        ELSE IF kv_payload = <<>>
        THEN [reqs |-> <<Sent(q1, t1)>>, ret |-> TRUE]
        ELSE [reqs |-> <<Sent(q1, t1)>> \o sav.reqs, ret |-> sav.raised = "none"]

\* What kv.get(key) may be for the dict built from rows, whose order the
\* store chooses: the value of a row of that key, None without one.
KvGet(rows, key) ==
    IF \E r \in rows : r.key = key THEN {r.value : r \in {x \in rows : x.key = key}}
    ELSE {None}

\* A value of the fallback is put in `out` when it is truthy.
Truthy(v) == IF v = <<>> THEN None ELSE v

\* load_profile: the dicts it may return, read with .get (None for a key
\* it does not hold); t1 is what the transport does to the profiles
\* select, t2 and t3 to the requests of kv_select.
load_profile(uid, t1, t2, t3, leg, P, K) ==
    LET data == {r \in DOMAIN P : r.user_id = uid}
        sel == kv_select(uid, <<DISPLAY_NAME, AVATAR_URL>>, t2, t3, leg)
        rows == Selected(K, sel.from, <<DISPLAY_NAME, AVATAR_URL>>)
    IN  IF t1 = "ok" /\ data # {}
        THEN {[display_name |-> r.display_name, avatar_url |-> r.avatar_url] : r \in data}
        ELSE IF sel.raised # "none"
        THEN {[display_name |-> None, avatar_url |-> None]}
        ELSE {[display_name |-> Truthy(d), avatar_url |-> Truthy(a)] :
                 d \in KvGet(rows, DISPLAY_NAME), a \in KvGet(rows, AVATAR_URL)}

\* The requests load_profile sends.
load_profile_reqs(uid, t1, t2, t3, leg, P) ==
    LET q1 == SelectReq("profiles", uid, <<>>)
        sel == kv_select(uid, <<DISPLAY_NAME, AVATAR_URL>>, t2, t3, leg)
    IN  IF t1 = "ok" /\ \E r \in DOMAIN P : r.user_id = uid
        THEN <<Sent(q1, t1)>>
        ELSE <<Sent(q1, t1)>> \o sel.reqs

(* --------------------- specification: the profile --------------------- *)
Ann == <<"A", "n", "n">>
Bob == <<"B", "o", "b">>

DisplayNames == {Ann, Bob}

\* profiles at the start: empty, or a row of U1 written earlier.
ProfileStart ==
    {EmptyTable,
     BagOf({[user_id |-> "U1", display_name |-> Ann, avatar_url |-> None]})}

ProfileInit ==
    /\ legacy \in BOOLEAN
    /\ kvT = IF legacy THEN LegacyKv ELSE EmptyTable
    /\ profT \in ProfileStart
    /\ trackT = EmptyTable
    /\ resT = EmptyTable
    /\ catT = EmptyTable
    /\ urT = EmptyTable
    /\ sess = <<>>
    /\ reqs = <<>>
    /\ last = [op |-> "none"]
    /\ ExpandIdle
    /\ DashIdle
    /\ HeroIdle

\* Update Player Name: Save name
SaveProfile ==
    \E uid \in Users, n \in DisplayNames, t1 \in Transport, t2 \in Transport :
        LET r == save_profile(uid, n, None, t1, t2, legacy) IN
        /\ reqs' = r.reqs
        /\ profT' = IF t1 = "ok" THEN ProfileUpsert(profT, ProfileObj(uid, n, None))
                     ELSE profT
        /\ kvT' = Applied(kvT, r.reqs, "buildings_kv")
        /\ last' = [op |-> "save_profile", uid |-> uid, display_name |-> n,
                    ret |-> r.ret]
        /\ UNCHANGED <<legacy, trackT, resT, catT, urT, sess>>
        /\ UNCHANGED <<xvars, dvars, hvars>>

\* prof = load_profile(user_id), as every page run starts.  `after` holds
\* the name of the save_profile that returned True just before, for the
\* same user; `clean` tells that no request of this load failed.
LoadProfile ==
    \E uid \in Users, t1 \in Transport, t2 \in Transport, t3 \in Transport :
        \E prof \in load_profile(uid, t1, t2, t3, legacy, profT, kvT) :
            /\ last' = [op |-> "load_profile", uid |-> uid, out |-> prof,
                        clean |-> t1 = "ok" /\ t2 = "ok" /\ t3 = "ok",
                        after |-> IF /\ last.op = "save_profile"
                                     /\ last.uid = uid
                                     /\ last.ret
                                  THEN <<last.display_name>> ELSE <<>>]
            /\ reqs' = load_profile_reqs(uid, t1, t2, t3, legacy, profT)
            /\ UNCHANGED <<legacy, kvT, trackT, resT, profT, catT, urT, sess>>
            /\ UNCHANGED <<xvars, dvars, hvars>>

ProfileNext == SaveProfile \/ LoadProfile

SpecProfile == ProfileInit /\ [][ProfileNext]_vars

(* ------------------------------ claim C25 ----------------------------- *)
\* C25: a saved profile sticks: the load_profile that follows a
\* save_profile(uid, display_name=n) that returned True, for the same user
\* and with no failing request of its own, returns display_name n.
C25_SavedProfileSticks ==
    (last.op = "load_profile" /\ last.after # <<>> /\ last.clean)
        => last.out.display_name = last.after[1]

(* -------------------- Research: category ordering --------------------- *)
\* pos_map = {cat: i for i, cat in enumerate(saved_order)}: a category named
\* more than once keeps its last index.
PosMapOfSaved(saved_order) ==
    [c \in Range(saved_order) |->
        SetMax({i \in 1..Len(saved_order) : saved_order[i] = c}) - 1]

\* for cat in cats: if cat not in pos_map: pos_map[cat] = len(pos_map)
RECURSIVE PosMapFill(_, _)
PosMapFill(pos_map, cats) ==
    IF cats = <<>> THEN pos_map
    ELSE LET cat == Head(cats)
             next == IF cat \in DOMAIN pos_map THEN pos_map
                     ELSE pos_map @@ (cat :> Cardinality(DOMAIN pos_map))
         IN  PosMapFill(next, Tail(cats))

\* x put into the sorted list srt after every element whose key is not
\* greater: sorted() is stable.
RECURSIVE InsertByKey(_, _, _)
InsertByKey(x, srt, key) ==
    IF srt = <<>> THEN <<x>>
    ELSE IF key[Head(srt)] <= key[x] THEN <<Head(srt)>> \o InsertByKey(x, Tail(srt), key)
    ELSE <<x>> \o srt

\* sorted(cats, key=lambda c: pos_map.get(c, 10**9))
RECURSIVE SortedByKey(_, _)
SortedByKey(cats, key) ==
    IF cats = <<>> THEN <<>>
    ELSE InsertByKey(cats[Len(cats)], SortedByKey(SubSeq(cats, 1, Len(cats) - 1), key), key)

render_cats(saved_order, cats) ==
    SortedByKey(cats, PosMapFill(PosMapOfSaved(saved_order), cats))

(* ------------- specification: Research category ordering -------------- *)
MaxSavedLen == 3

\* Category names in sorted order, and a name no row of the data has.
Categories == <<"Development", "Economy", "Hero">>
Unknown == "Zeta"

\* cats = sorted(df["category"].unique()): the sorted sublists of Categories.
CatLists ==
    {SelectSeq(Categories, LAMBDA c : c \in S) : S \in SUBSET Range(Categories)}

SavedOrders ==
    UNION {[1..n -> Range(Categories) \cup {Unknown}] : n \in 0..MaxSavedLen}

OrderInit ==
    /\ dres = [fn |-> "none"]
    /\ kv_map_full = <<>>
    /\ ExpandIdle
    /\ StoreIdle
    /\ HeroIdle
    /\ PagesIdle

RenderOrder ==
    \E saved_order \in SavedOrders, cats \in CatLists :
        /\ dres' = [fn |-> "render_cats", saved_order |-> saved_order, cats |-> cats,
                    val |-> render_cats(saved_order, cats)]
        /\ UNCHANGED kv_map_full
        /\ UNCHANGED <<xvars, svars, hvars, pvars>>

OrderNext == RenderOrder

SpecOrder == OrderInit /\ [][OrderNext]_vars

(* ------------------------------ claim C26 ----------------------------- *)
\* c comes before d in the list seq.
Before(seq, c, d) ==
    \E i, j \in 1..Len(seq) : i < j /\ seq[i] = c /\ seq[j] = d

\* C26: for any saved order, every category of the data is rendered
\* exactly once; two categories of the saved order, one named only before
\* the other there, are rendered in that order; and a category absent from
\* the saved order is rendered after every category that is in it.
C26_RenderOrder ==
    dres.fn = "render_cats" =>
        LET saved == dres.saved_order
            cats == dres.cats
            val == dres.val
            named == Range(saved)
        IN  /\ Len(val) = Len(cats)
            /\ Range(val) = Range(cats)
            /\ \A c, d \in Range(cats) \cap named :
                   (c # d /\ ~Before(saved, d, c)) => Before(val, c, d)
            /\ \A c \in Range(cats) \ named, d \in Range(cats) \cap named :
                   Before(val, d, c)

(* --------------------------- Research page --------------------------- *)
\* Rows of research_catalog are [name, category, max_level] (order_index,
\* which only sorts the rows of a category, is left out); rows of
\* user_research are [user_id, name, level, tracked, priority].

\* The user's row of a name (there is one at most), or the defaults the
\* merge fills in: level 0 and flags False.
\* load_research_for_user(uid), and the same merge at the top of the
\* Research page, for the rows the two selects returned: the catalog
\* left-joined on name with the user's rows.
UserRow(ur_rows, name) ==
    IF \E r \in ur_rows : r.name = name
    THEN CHOOSE r \in ur_rows : r.name = name
    ELSE [name |-> name, level |-> 0, tracked |-> FALSE, priority |-> FALSE]

MergeResearch(cat_rows, ur_rows) ==
    {[name |-> c.name, category |-> c.category, max_level |-> c.max_level,
      level |-> UserRow(ur_rows, c.name).level,
      tracked |-> UserRow(ur_rows, c.name).tracked,
      priority |-> UserRow(ur_rows, c.name).priority] : c \in cat_rows}

\* The frame the page works on when the select of the catalog ends as t1
\* and the select of the user's rows as t2: a failed select counts as no
\* rows (except Exception: ... = []).
load_research_for_user(uid, t1, t2, C, U) ==
    MergeResearch(IF t1 = "ok" THEN DOMAIN C ELSE {},
                  IF t2 = "ok" THEN {r \in DOMAIN U : r.user_id = uid} ELSE {})

\* ur_payload of Save for the edited rows of a category, in the order po of
\* the grid: the rows whose name is not blank and whose level or flags
\* differ from the originals.
RECURSIVE UrPayload(_, _, _)
UrPayload(uid, po, sub) ==
    IF po = <<>> THEN <<>>
    ELSE LET r == Head(po)
             changed == \A o \in sub :
                            o.name = r.name =>
                                \/ o.level # r.level
                                \/ o.tracked # r.tracked
                                \/ o.priority # r.priority
             row == [user_id |-> uid, name |-> r.name, level |-> r.level,
                     tracked |-> r.tracked, priority |-> r.priority]
         IN  (IF changed THEN <<row>> ELSE <<>>) \o UrPayload(uid, Tail(po), sub)

\* cat_payload of Save: the rows whose max_level differs from the original.
RECURSIVE CatPayload(_, _, _)
CatPayload(cat, po, sub) ==
    IF po = <<>> THEN <<>>
    ELSE LET r == Head(po)
             changed == \E o \in sub : o.name = r.name /\ o.max_level # r.max_level
             row == [name |-> r.name, category |-> cat, max_level |-> r.max_level]
         IN  (IF changed THEN <<row>> ELSE <<>>) \o CatPayload(cat, Tail(po), sub)

(* ----------------- specification: the Research page ------------------- *)
Armor == "Armor"
Coins == "Coins"

CatalogStart ==
    BagOf({[name |-> Armor, category |-> "Development", max_level |-> 2],
           [name |-> Coins, category |-> "Economy", max_level |-> 1]})

ResearchPageInit ==
    /\ catT = CatalogStart
    /\ urT = EmptyTable
    /\ profT = EmptyTable
    /\ sess = <<>>
    /\ ExpandIdle
    /\ DashIdle
    /\ StoreIdle
    /\ HeroIdle

\* What the user may leave in the Level and Max Level cells of a row.
EditedLevels == {0, 1}
EditedMaxes == {1, 2}

\* Research page: Save of one category, after the page loaded its frame
\* with both selects answered.
ResearchSave ==
    \E uid \in Users, cat \in RESEARCH_CATEGORIES_SET, t1 \in Transport, t2 \in Transport,
       lvl \in EditedLevels, ml \in EditedMaxes :
        LET df == load_research_for_user(uid, "ok", "ok", catT, urT)
            sub == {r \in df : r.category = cat}
            edited == {[r EXCEPT !.level = lvl, !.max_level = ml] : r \in sub}
        IN  \E po \in Orders(edited) :
            LET ur_payload == UrPayload(uid, po, sub)
                cat_payload == CatPayload(cat, po, sub)
                q1 == UpsertReq("user_research", ur_payload, {ID_COL, "name"})
                q2 == UpsertReq("research_catalog", cat_payload, {"name"})
                rs1 == IF ur_payload # <<>> THEN <<Sent(q1, t1)>> ELSE <<>>
                failed1 == ur_payload # <<>> /\ t1 # "ok"
                rs2 == IF ~failed1 /\ cat_payload # <<>> THEN <<Sent(q2, t2)>> ELSE <<>>
                failed2 == ~failed1 /\ cat_payload # <<>> /\ t2 # "ok"
                rs == rs1 \o rs2
            IN  /\ sub # {}
                /\ reqs' = rs
                /\ urT' = Applied(urT, rs, "user_research")
                /\ catT' = Applied(catT, rs, "research_catalog")
                /\ last' = [op |-> "research_save", uid |-> uid, cat |-> cat,
                            raised |-> IF failed1 THEN t1
                                       ELSE IF failed2 THEN t2 ELSE "none"]
                /\ UNCHANGED <<legacy, kvT, trackT, resT, profT, sess>>
                /\ UNCHANGED <<xvars, dvars, hvars>>

\* df = load_research_for_user(user_id), as the Dashboard and the Research
\* page start.
ResearchLoad ==
    \E uid \in Users, t1 \in Transport, t2 \in Transport :
        /\ last' = [op |-> "research_load", uid |-> uid,
                    df |-> load_research_for_user(uid, t1, t2, catT, urT)]
        /\ reqs' = <<Sent(SelectReq("research_catalog", NoOwner, <<>>), t1),
                     Sent(SelectReq("user_research", uid, <<>>), t2)>>
        /\ UNCHANGED <<legacy, kvT, trackT, resT, profT, catT, urT, sess>>
        /\ UNCHANGED <<xvars, dvars, hvars>>

ResearchPageNext == ResearchSave \/ ResearchLoad

SpecResearchPage == ResearchPageInit /\ [][ResearchPageNext]_vars

(* ------------------------------ claim C27 ----------------------------- *)
\* C27: a save of one user never changes what another user reads: across
\* every Save of the Research page, the frame load_research_for_user
\* returns for each other user is the same before and after it.
C27_SaveLeavesOthersReads ==
    [][last'.op = "research_save" =>
         \A b \in Users \ {last'.uid} :
             load_research_for_user(b, "ok", "ok", catT', urT')
                 = load_research_for_user(b, "ok", "ok", catT, urT)]_vars

(* ------- specification: bootstrap_user_if_needed, step by step -------- *)
\* Each signed-in user has a session running the script; sess[u] holds where
\* its call of bootstrap_user_if_needed stands and the has_any it computed.
\* Between two requests of one session the store serves the requests of
\* the others.
BootStart == [pc |-> "start", has_any |-> FALSE]

BootInit ==
    /\ sess = [u \in Users |-> BootStart]
    /\ profT = EmptyTable
    /\ catT = EmptyTable
    /\ urT = EmptyTable
    /\ ExpandIdle
    /\ DashIdle
    /\ StoreIdle
    /\ HeroIdle

BootUnchanged == UNCHANGED <<legacy, trackT, profT, catT, urT, xvars, dvars, hvars>>

\* res = sb.table("buildings_kv").select("key", count="exact")...; has_any
BootCheckKv ==
    \E uid \in Users, t \in Transport :
        LET q == SelectReq("buildings_kv", uid, <<>>)
            e == Outcome(q, t, legacy)
            has_any == Selected(kvT, uid, <<>>) # {}
        IN  /\ sess[uid].pc = "start"
            /\ sess' = [sess EXCEPT ![uid] =
                           IF e = "ok" THEN [pc |-> "checked", has_any |-> has_any]
                           ELSE [pc |-> "part2", has_any |-> FALSE]]
            /\ reqs' = <<Sent(q, e)>>
            /\ last' = [op |-> "bootstrap_check", uid |-> uid, raised |-> "none"]
            /\ UNCHANGED <<kvT, resT>>
            /\ BootUnchanged

\* if not has_any: kv_upsert("buildings_kv", uid, seed)
BootSeedKv ==
    \E uid \in Users, t \in Transport :
        LET r == IF sess[uid].has_any THEN [reqs |-> <<>>, raised |-> "none"]
                 ELSE kv_upsert(uid, KvSeed, t, legacy)
        IN  /\ sess[uid].pc = "checked"
            /\ sess' = [sess EXCEPT ![uid] = [pc |-> "part2", has_any |-> FALSE]]
            /\ reqs' = r.reqs
            /\ kvT' = Applied(kvT, r.reqs, "buildings_kv")
            /\ last' = [op |-> "bootstrap_seed", uid |-> uid, raised |-> "none"]
            /\ UNCHANGED resT
            /\ BootUnchanged

\* Part 2: the select of research_data and has_any.
BootCheckResearch ==
    \E uid \in Users, t \in Transport :
        LET q == SelectReq("research_data", uid, <<>>)
            e == Outcome(q, t, legacy)
            has_any == Selected(resT, uid, <<>>) # {}
        IN  /\ sess[uid].pc = "part2"
            /\ sess' = [sess EXCEPT ![uid] =
                           IF e = "ok" THEN [pc |-> "rchecked", has_any |-> has_any]
                           ELSE [pc |-> "done", has_any |-> FALSE]]
            /\ reqs' = <<Sent(q, e)>>
            /\ last' = [op |-> "bootstrap_rcheck", uid |-> uid, raised |-> "none"]
            /\ UNCHANGED <<kvT, resT>>
            /\ BootUnchanged

\* if not has_any: sb.table("research_data").upsert(seed).execute()
BootSeedResearch ==
    \E uid \in Users, t \in Transport :
        LET q == UpsertReq("research_data", ResearchSeed(uid), {})
            rs == IF sess[uid].has_any THEN <<>> ELSE <<Sent(q, Outcome(q, t, legacy))>>
        IN  /\ sess[uid].pc = "rchecked"
            /\ sess' = [sess EXCEPT ![uid] = [pc |-> "done", has_any |-> FALSE]]
            /\ reqs' = rs
            /\ resT' = Applied(resT, rs, "research_data")
            /\ last' = [op |-> "bootstrap_rseed", uid |-> uid, raised |-> "none"]
            /\ UNCHANGED kvT
            /\ BootUnchanged

\* The script runs again (st.rerun, or any widget event).
BootRerun ==
    \E uid \in Users :
        /\ sess[uid].pc = "done"
        /\ sess' = [sess EXCEPT ![uid] = BootStart]
        /\ reqs' = <<>>
        /\ last' = [op |-> "rerun", uid |-> uid, raised |-> "none"]
        /\ UNCHANGED <<kvT, resT>>
        /\ BootUnchanged

\* Another session of a user saves the level of HQ (Buildings: Save changes).
LevelWrite ==
    /\ KvUpsert({<<[key |-> HQ, value |-> One]>>})

BootNext ==
    \/ BootCheckKv
    \/ BootSeedKv
    \/ BootCheckResearch
    \/ BootSeedResearch
    \/ BootRerun
    \/ LevelWrite

SpecBoot == BootInit /\ [][BootNext]_vars

(* ------------------------------ claim C28 ----------------------------- *)
\* C28: bootstrap_user_if_needed never changes the value of a buildings_kv
\* key that holds a value for its owner: every row of the owner stored
\* before the seed step is stored after it, also when another session of
\* the owner wrote between the check and the seed.
C28_SeedKeepsStoredValues ==
    [][last'.op = "bootstrap_seed" =>
         \A r \in DOMAIN kvT :
             r.user_id = last'.uid => r \in DOMAIN kvT']_vars

(* ------ specification: a render of the Buildings page, step by step --- *)
\* sess[u] holds where the run of the Buildings page of u's session stands,
\* and the current_map and tr_rows it loaded.  Between its load and its
\* write-back the store serves the requests of other sessions.
RenderStart == [pc |-> "start", current_map |-> <<>>, tr_rows |-> {}]

RenderInit ==
    /\ sess = [u \in Users |-> RenderStart]
    /\ profT = EmptyTable
    /\ catT = EmptyTable
    /\ urT = EmptyTable
    /\ ExpandIdle
    /\ DashIdle
    /\ StoreIdle
    /\ HeroIdle

RenderUnchanged == UNCHANGED <<legacy, kvT, resT, profT, catT, urT, xvars, dvars, hvars>>

\* The editor returns the frame as it was given: no cell edited, no row
\* added or deleted.
NoEdit(grid) ==
    [cells |-> [i \in 1..Len(grid) |-> grid[i].level],
     hammer |-> {}, brick |-> {}, drop |-> {}, extra |-> <<>>]

\* current_map = load_kv_map(...); tr_rows = owner_select(...): an error of
\* either ends the run.
RenderLoad ==
    \E uid \in Users, t1 \in Transport, t2 \in Transport, t3 \in Transport :
        LET sel == kv_select(uid, <<>>, t1, t2, legacy)
            q_tr == SelectReq("buildings_tracking", uid, <<>>)
            e_tr == Outcome(q_tr, t3, legacy)
        IN  /\ sess[uid].pc = "start"
            /\ IF sel.raised # "none"
               THEN /\ reqs' = sel.reqs
                    /\ sess' = sess
               ELSE \E o \in Orders(Selected(kvT, sel.from, <<>>)) :
                    /\ reqs' = sel.reqs \o <<Sent(q_tr, e_tr)>>
                    /\ sess' = IF e_tr # "ok" THEN sess
                               ELSE [sess EXCEPT ![uid] =
                                        [pc |-> "loaded", current_map |-> load_kv_map(o),
                                         tr_rows |-> Selected(trackT, uid, <<>>)]]
            /\ last' = [op |-> "render_load", uid |-> uid, raised |-> "none"]
            /\ UNCHANGED trackT
            /\ RenderUnchanged

\* persist tracking, for the grid built from what was loaded and left as
\* it is in the editor.
RenderPersist ==
    \E uid \in Users, t \in Transport :
        LET grid == Grid(sess[uid].current_map, sess[uid].tr_rows)
            edited == Edited(grid, NoEdit(grid))
        IN  \E po \in Orders(AllNames(edited)) :
            LET payload == TrackingPayload(edited, po)
                ups == IF payload # <<>>
                       THEN owner_upsert("buildings_tracking", payload, uid, t, legacy)
                       ELSE [reqs |-> <<>>, raised |-> "none"]
            IN  /\ sess[uid].pc = "loaded"
                /\ sess' = [sess EXCEPT ![uid] = RenderStart]
                /\ reqs' = ups.reqs
                /\ trackT' = Applied(trackT, ups.reqs, "buildings_tracking")
                /\ last' = [op |-> "render_persist", uid |-> uid, raised |-> ups.raised]
                /\ RenderUnchanged

\* Another session of a user ticks or clears the Currently Upgrading box of
\* HQ; its own write-back stores the flag.
FlagWrite ==
    /\ OwnerUpsert

RenderNext == RenderLoad \/ RenderPersist \/ FlagWrite

SpecRender == RenderInit /\ [][RenderNext]_vars

(* ------------------------------ claim C29 ----------------------------- *)
\* The names of uid stored as in progress, and as queued next.
UpSet(T, uid) == {r.name : r \in {x \in DOMAIN T : x.user_id = uid /\ x.upgrading}}
NextSet(T, uid) == {r.name : r \in {x \in DOMAIN T : x.user_id = uid /\ x.next}}

\* C29: a render of the Buildings page with no checkbox edited leaves the
\* owner's stored in-progress and queued-next name sets as they are, also
\* when another session changed a flag between the load and the
\* write-back.
C29_RenderKeepsFlags ==
    [][last'.op = "render_persist" =>
         /\ UpSet(trackT', last'.uid) = UpSet(trackT, last'.uid)
         /\ NextSet(trackT', last'.uid) = NextSet(trackT, last'.uid)]_vars

(* ------------------------ JSON key-value helpers ---------------------- *)
\* json.dumps(obj) for obj a list of strings without quotes or backslashes:
\* "[", the items in double quotes separated by ", ", and "]".
RECURSIVE DumpItems(_)
DumpItems(obj) ==
    IF obj = <<>> THEN <<>>
    ELSE <<"\"">> \o Head(obj) \o <<"\"">>
         \o (IF Len(obj) > 1 THEN <<",", " ">> ELSE <<>>) \o DumpItems(Tail(obj))

json_dumps(obj) == <<"[">> \o DumpItems(obj) \o <<"]">>

\* json.loads(s) for such a text, read from its character i on: acc holds
\* the items read, cur the item being read when in_str.
RECURSIVE LoadItems(_, _, _, _, _)
LoadItems(s, i, acc, cur, in_str) ==
    IF i > Len(s) THEN acc
    ELSE IF s[i] = "\""
    THEN IF in_str THEN LoadItems(s, i + 1, Append(acc, cur), <<>>, FALSE)
         ELSE LoadItems(s, i + 1, acc, <<>>, TRUE)
    ELSE IF in_str THEN LoadItems(s, i + 1, acc, Append(cur, s[i]), TRUE)
    ELSE LoadItems(s, i + 1, acc, cur, FALSE)

\* Whether json.loads(s) returns: s is a bracketed text.
json_ok(s) == Len(s) >= 2 /\ s[1] = "[" /\ s[Len(s)] = "]"

json_loads(s) == LoadItems(s, 1, <<>>, <<>>, FALSE)

\* kv_select("buildings_kv", uid, key) with key a str: q.in_("key", keys)
\* walks its argument, and a str yields its characters, so the filter
\* lists the one-character strings of key.
KeysOfStr(key) == [i \in 1..Len(key) |-> <<key[i]>>]

\* kv_get_json(uid, key, default): the values it may return, for the
\* transport outcomes t1 and t2 of the requests of kv_select.  rows[0] is
\* any of the rows selected.
kv_get_json(uid, key, default, t1, t2, leg, K) ==
    LET sel == kv_select(uid, KeysOfStr(key), t1, t2, leg)
        rows == Selected(K, sel.from, KeysOfStr(key))
    IN  IF sel.raised # "none" \/ rows = {} THEN {default}
        ELSE {IF r.value # <<>> /\ r.value # None /\ json_ok(r.value)
              THEN json_loads(r.value) ELSE default : r \in rows}

\* kv_set_json(uid, key, obj)
kv_set_json(uid, key, obj, t, leg) ==
    kv_upsert(uid, <<[key |-> key, value |-> json_dumps(obj)]>>, t, leg)

(* ---------------- specification: the saved group order ---------------- *)
RESEARCH_CATEGORY_ORDER ==
    <<"r", "e", "s", "e", "a", "r", "c", "h", "_", "c", "a", "t", "e",
      "g", "o", "r", "y", "_", "o", "r", "d", "e", "r">>

\* A key of one character, as a caller of the helpers may pass.
ShortKey == <<"k">>

JsonKeys == {RESEARCH_CATEGORY_ORDER, ShortKey}

Dev == <<"D", "e", "v">>
Eco == <<"E", "c", "o">>

\* preferred_order, cut to two categories, and the orders Save Group Order
\* may write.
preferred_order == <<Dev, Eco>>
NewOrders == {<<Dev, Eco>>, <<Eco, Dev>>, <<Eco>>, <<>>}

JsonInit ==
    /\ legacy \in BOOLEAN
    /\ kvT = IF legacy THEN LegacyKv ELSE EmptyTable
    /\ trackT = EmptyTable
    /\ resT = EmptyTable
    /\ reqs = <<>>
    /\ last = [op |-> "none"]
    /\ ExpandIdle
    /\ DashIdle
    /\ HeroIdle
    /\ PagesIdle

\* Research: Save Group Order, and any other caller of kv_set_json
KvSetJson ==
    \E uid \in Users, key \in JsonKeys, obj \in NewOrders, t \in Transport :
        LET r == kv_set_json(uid, key, obj, t, legacy) IN
        /\ reqs' = r.reqs
        /\ kvT' = Applied(kvT, r.reqs, "buildings_kv")
        /\ last' = [op |-> "kv_set_json", uid |-> uid, key |-> key, obj |-> obj,
                    raised |-> r.raised]
        /\ UNCHANGED <<legacy, trackT, resT>>
        /\ UNCHANGED <<xvars, dvars, hvars, pvars>>

\* saved_order = kv_get_json(user_id, key, preferred_order).  `after` holds
\* the obj of the kv_set_json that succeeded just before for the same user
\* and key; `clean` tells that no request of this read failed.
KvGetJson ==
    \E uid \in Users, key \in JsonKeys, t1 \in Transport, t2 \in Transport :
        \E v \in kv_get_json(uid, key, preferred_order, t1, t2, legacy, kvT) :
            /\ reqs' = kv_select(uid, KeysOfStr(key), t1, t2, legacy).reqs
            /\ last' = [op |-> "kv_get_json", uid |-> uid, key |-> key, out |-> v,
                        clean |-> t1 = "ok" /\ t2 = "ok",
                        after |-> IF /\ last.op = "kv_set_json"
                                     /\ last.uid = uid
                                     /\ last.key = key
                                     /\ last.raised = "none"
                                  THEN <<last.obj>> ELSE <<>>]
            /\ UNCHANGED <<legacy, kvT, trackT, resT>>
            /\ UNCHANGED <<xvars, dvars, hvars, pvars>>

JsonNext == KvSetJson \/ KvGetJson

SpecJson == JsonInit /\ [][JsonNext]_vars

(* ------------------------------ claim C30 ----------------------------- *)
\* C30: the JSON helpers round-trip: the kv_get_json that follows a
\* kv_set_json(uid, key, obj) that succeeded, for the same user and key and
\* with no failing request of its own, returns obj.
C30_JsonRoundTrip ==
    (last.op = "kv_get_json" /\ last.after # <<>> /\ last.clean)
        => last.out = last.after[1]

=============================================================================
